---- MODULE Spec2Model ----
(***************************************************************************)
(* MetaAppTrader: the poll / diff / batch / publish pipeline.              *)
(*                                                                         *)
(* The model follows src/src/index.ts (pollListings, checkStatusChanges),  *)
(* src/src/bot/discord.ts (postListingsToDiscord, postBatchToDiscord,      *)
(* updateMessageWithStatus), src/src/bot/formatters.ts, the store of       *)
(* src/src/database/db.ts and the API client of src/unnamed/part_001.      *)
(* One action is one stretch of code between two suspension points of the  *)
(* single-threaded event loop: everything the code does synchronously      *)
(* after an awaited call resolves is part of the action of that resolve.   *)
(***************************************************************************)
EXTENDS Integers, Sequences, FiniteSets, TLC

(***************************************************************************)
(* Bounds of the model.                                                    *)
(***************************************************************************)
\* Listing ids the remote source ever publishes: 1..MaxIds.
MaxIds == 6
\* At most this many remote listings are in a status other than "active".
MaxChanged == 2
\* Invocations of pollListings that can be suspended at the same time.
MaxSlots == 2
\* Poll cycles that get past the guard, the initial poll included.
MaxCycles == 2

(***************************************************************************)
(* Program constants.                                                      *)
(***************************************************************************)
LISTINGS_PER_BATCH == 5

Ids == 1..MaxIds
Slots == 1..MaxSlots
Statuses == {"active", "in-progress"}
\* config.discord.channelId: the one channel batches are posted to.
ChannelId == "channel"

VARIABLES
  isProcessing,     \* index.ts: the overlap guard
  cyc,              \* per invocation of pollListings: position and locals
  listings,         \* store: table listings, keyed by id
  posted_listings,  \* store: table posted_listings (set of rows)
  messages,         \* transport: the messages of the channel, by handle
  remote,           \* remote source: status of each listing id, or "none"
  pollOutcome,      \* how the last finished pollListings promise settled
  tickFlip,         \* flips each time pollListings is invoked by the timer
  cycles,           \* cycles started so far (stats, capped by MaxCycles)
  nullIds,          \* history: ids whose batch send returned null
  call,             \* a function called directly: its arguments and result
  proc              \* the process: scheduler, transport, store handle, exit

vars == <<isProcessing, cyc, listings, posted_listings, messages, remote,
          pollOutcome, tickFlip, cycles, nullIds, call, proc>>

(***************************************************************************)
(* Sequences.                                                              *)
(***************************************************************************)
Range(s) == {s[k] : k \in DOMAIN s}

Max(S) == CHOOSE m \in S : \A x \in S : x <= m

Min(a, b) == IF a < b THEN a ELSE b

(***************************************************************************)
(* The remote source and the API client.                                   *)
(***************************************************************************)
\* listing_type of a remote record as published: odd ids are sell offers,
\* even ids buy.
TypeOf(id) == IF id % 2 = 1 THEN "sell" ELSE "buy"

\* created_at of a remote record: ids are published in order of time.
CreatedAt(id) == id

\* A value that may be null is the set of that value, empty for null (and,
\* for the optional rarity of an item, for undefined).
Null == {}

Some(v) == {v}

\* The other listing type.
OtherType(t) == IF t = "sell" THEN "buy" ELSE "sell"

\* The listing_type of the raw record of listing id in the given status.
RecordType(id, status) ==
  IF status = "active" THEN TypeOf(id) ELSE OtherType(TypeOf(id))

\* The raw record of listing id in the given status: every third listing is
\* a barter, the others name a price. The remote source owns the record: an
\* offer that is no longer active comes back rewritten, with the other
\* type, a later created_at and updated_at, one more of the item and a
\* higher price (created_at stays in the order of the ids).
ApiRecord(id, status) ==
  LET edited == IF status = "active" THEN 0 ELSE 1
  IN [id |-> id,
      listing_type |-> RecordType(id, status),
      status |-> status,
      created_at |-> 2 * CreatedAt(id) + edited,
      updated_at |-> 2 * CreatedAt(id) + 2 * edited,
      item_id |-> "iron-scrap", quantity |-> 1 + edited,
      item |-> [name |-> "Iron Scrap", icon |-> "iron-scrap.webp", rarity |-> Some("common")],
      price |-> IF id % 3 = 0 THEN Null ELSE Some(id + edited),
      wanted_item_id |-> IF id % 3 = 0 THEN Some("wires") ELSE Null,
      wanted_quantity |-> IF id % 3 = 0 THEN Some(2 + edited) ELSE Null,
      wanted_item |-> IF id % 3 = 0
                      THEN Some([name |-> "Wires", icon |-> "wires.webp", rarity |-> Null])
                      ELSE Null]

\* The raw record the remote source returns for listing id.
ApiListingOf(id) == ApiRecord(id, remote[id])

\* { id: item_id, amount: quantity, name, icon, rarity } of the traded item.
ItemSide(apiListing) ==
  [id |-> Some(apiListing.item_id), amount |-> Some(apiListing.quantity),
   name |-> Some(apiListing.item.name), icon |-> Some(apiListing.item.icon),
   rarity |-> apiListing.item.rarity]

\* The currency pseudo-item: no rarity.
SeedsSide(price) ==
  [id |-> Some("assorted-seeds"), amount |-> price, name |-> Some("Assorted Seeds"),
   icon |-> Some("assorted-seeds.webp"), rarity |-> Null]

\* The mutant of WantedSide: the rarity of the wanted item is not copied.
WantedSideWithoutRarity(apiListing) ==
  LET wanted_item == CHOOSE w \in apiListing.wanted_item : TRUE
  IN [id |-> apiListing.wanted_item_id, amount |-> apiListing.wanted_quantity,
      name |-> Some(wanted_item.name), icon |-> Some(wanted_item.icon),
      rarity |-> Null]

\* { id: wanted_item_id!, amount: wanted_quantity!, name: wanted_item!.name,
\* icon: wanted_item!.icon, rarity: wanted_item!.rarity }
WantedSide(apiListing) ==
  LET wanted_item == CHOOSE w \in apiListing.wanted_item : TRUE
  IN [id |-> apiListing.wanted_item_id, amount |-> apiListing.wanted_quantity,
      name |-> Some(wanted_item.name), icon |-> Some(wanted_item.icon),
      rarity |-> wanted_item.rarity]

\* The mutant of CounterSide: a wanted item, when there is one, goes before
\* the price.
CounterSideBarterFirst(apiListing) ==
  IF apiListing.wanted_item # Null THEN WantedSide(apiListing)
  ELSE SeedsSide(apiListing.price)

\* if (apiListing.price !== null) seeds, else the wanted item.
CounterSide(apiListing) ==
  IF apiListing.price # Null THEN SeedsSide(apiListing.price)
  ELSE WantedSide(apiListing)

\* wanted_item!.name raises a TypeError when wanted_item is null; the
\* barter branch is the only place where the function reads through a
\* nullable field.
transformApiListingThrows(apiListing) ==
  apiListing.price = Null /\ apiListing.wanted_item = Null

\* The Listing returned for a raw record on which the function does not
\* throw.
transformApiListing(apiListing) ==
  [id |-> apiListing.id, type |-> apiListing.listing_type,
   status |-> apiListing.status, created_at |-> apiListing.created_at,
   updated_at |-> apiListing.updated_at,
   selling |-> IF apiListing.listing_type = "sell" THEN ItemSide(apiListing)
               ELSE CounterSide(apiListing),
   buying |-> IF apiListing.listing_type = "sell" THEN CounterSide(apiListing)
              ELSE ItemSide(apiListing)]

\* response.data.data.map(transformApiListing) inside the try block of
\* getSellListings / getBuyListings: an error of any element is logged and
\* rethrown by the catch block.
TransformAll(data) ==
  IF \E k \in DOMAIN data : transformApiListingThrows(data[k])
  THEN [threw |-> TRUE, listings |-> <<>>]
  ELSE [threw |-> FALSE,
        listings |-> [k \in DOMAIN data |-> transformApiListing(data[k])]]

RECURSIVE ResponseData(_)
\* response.data.data: the raw records of the listing ids S, the newest
\* first.
ResponseData(S) ==
  IF S = {} THEN <<>>
  ELSE <<ApiListingOf(Max(S))>> \o ResponseData(S \ {Max(S)})

\* listing_type = t, sortBy created_at, sortOrder desc.
FetchType(t) ==
  TransformAll(ResponseData({id \in Ids : /\ remote[id] # "none"
                                          /\ RecordType(id, remote[id]) = t})).listings

getSellListings == FetchType("sell")

getBuyListings == FetchType("buy")

RECURSIVE InsertByCreatedDescBeforeEqual(_, _)
\* The mutant of InsertByCreatedDesc: x goes before the elements that are
\* as new as it is (a sort that is not stable).
InsertByCreatedDescBeforeEqual(x, s) ==
  IF s = <<>> THEN <<x>>
  ELSE IF Head(s).created_at > x.created_at
       THEN <<Head(s)>> \o InsertByCreatedDescBeforeEqual(x, Tail(s))
       ELSE <<x>> \o s

RECURSIVE InsertByCreatedDesc(_, _)
\* x placed behind every element that is at least as new (stable).
InsertByCreatedDesc(x, s) ==
  IF s = <<>> THEN <<x>>
  ELSE IF Head(s).created_at >= x.created_at
       THEN <<Head(s)>> \o InsertByCreatedDesc(x, Tail(s))
       ELSE <<x>> \o s

RECURSIVE SortByCreatedDesc(_)
\* Array.prototype.sort with (a, b) => b.created_at - a.created_at.
SortByCreatedDesc(s) ==
  IF s = <<>> THEN <<>>
  ELSE InsertByCreatedDesc(s[Len(s)], SortByCreatedDesc(SubSeq(s, 1, Len(s) - 1)))

\* [...sellListings, ...buyListings] sorted in place, newest first.
AllListingsOf(sellListings, buyListings) ==
  SortByCreatedDesc(sellListings \o buyListings)

getAllListings == AllListingsOf(getSellListings, getBuyListings)

\* The mutant of getNewListings: the filter is lost.
getNewListingsUnfiltered(fetchedListings, existingListingIds) ==
  fetchedListings

getNewListings(fetchedListings, existingListingIds) ==
  SelectSeq(fetchedListings, LAMBDA l : l.id \notin existingListingIds)

(***************************************************************************)
(* The store (database/db.ts).                                             *)
(***************************************************************************)
\* The mutant of listingExists: the lookup never finds a row.
listingExistsNever(ls, listingId) == FALSE

\* SELECT 1 FROM listings WHERE id = ?
listingExists(ls, listingId) == listingId \in DOMAIN ls

\* The row insertListing writes: the columns of the listing (the rarity of
\* an item has none), posted_to_discord 0.
listingToDbListing(listing) ==
  [id |-> listing.id, type |-> listing.type, status |-> listing.status,
   selling_id |-> listing.selling.id, selling_name |-> listing.selling.name,
   selling_icon |-> listing.selling.icon, selling_amount |-> listing.selling.amount,
   buying_id |-> listing.buying.id, buying_name |-> listing.buying.name,
   buying_icon |-> listing.buying.icon, buying_amount |-> listing.buying.amount,
   created_at |-> listing.created_at, updated_at |-> listing.updated_at,
   posted_to_discord |-> 0]

\* The Listing read back from a row.
dbListingToListing(row) ==
  [id |-> row.id, type |-> row.type, status |-> row.status,
   selling |-> [id |-> row.selling_id, name |-> row.selling_name,
                icon |-> row.selling_icon, amount |-> row.selling_amount],
   buying |-> [id |-> row.buying_id, name |-> row.buying_name,
               icon |-> row.buying_icon, amount |-> row.buying_amount],
   created_at |-> row.created_at, updated_at |-> row.updated_at]

\* The mutant of insertListing: the row is born with the delivered flag.
insertListingPosted(ls, listing) ==
  IF listing.id \in DOMAIN ls THEN ls
  ELSE ls @@ (listing.id :> [listingToDbListing(listing) EXCEPT !.posted_to_discord = 1])

\* The mutant of insertListing: INSERT OR REPLACE.
insertListingReplaces(ls, listing) ==
  (listing.id :> listingToDbListing(listing)) @@ ls

\* INSERT INTO listings; a primary key conflict is swallowed (returns false).
insertListing(ls, listing) ==
  IF listing.id \in DOMAIN ls THEN ls
  ELSE ls @@ (listing.id :> listingToDbListing(listing))

\* What insertListing returns: true after the INSERT, false from the catch
\* of the primary key conflict.
insertListingReturn(ls, listing) == listing.id \notin DOMAIN ls

RECURSIVE insertListings(_, _)
insertListings(ls, newListings) ==
  IF newListings = <<>> THEN ls
  ELSE insertListings(insertListing(ls, Head(newListings)), Tail(newListings))

RECURSIVE insertListingsReturn(_, _)
\* What insertListings returns: insertedCount, raised for every
\* insertListing of the loop that returned true.
insertListingsReturn(ls, newListings) ==
  IF newListings = <<>> THEN 0
  ELSE (IF insertListingReturn(ls, Head(newListings)) THEN 1 ELSE 0)
       + insertListingsReturn(insertListing(ls, Head(newListings)), Tail(newListings))

\* SELECT * FROM listings WHERE id = ?  (a one-element set, or none)
getListingById(ls, listingId) ==
  IF listingId \in DOMAIN ls THEN {dbListingToListing(ls[listingId])} ELSE {}

\* UPDATE listings SET posted_to_discord = 1 WHERE id IN (...)
markListingsAsPosted(ls, listingIds) ==
  [id \in DOMAIN ls |->
     IF id \in Range(listingIds) THEN [ls[id] EXCEPT !.posted_to_discord = 1]
     ELSE ls[id]]

\* The mutant of insertPostedListing: INSERT OR REPLACE.
insertPostedListingReplaces(pl, postedListing) ==
  {r \in pl : r.listing_id # postedListing.listing_id} \cup {postedListing}

\* INSERT INTO posted_listings; listing_id is the primary key and a conflict
\* is swallowed.
insertPostedListing(pl, postedListing) ==
  IF \E r \in pl : r.listing_id = postedListing.listing_id THEN pl
  ELSE pl \cup {postedListing}

\* listings JOIN posted_listings WHERE message_id = ? AND batch_position = ?
\* (a set of matching listings; .get() takes one of them, or none)
getListingByMessageId(ls, pl, messageId, batchPosition) ==
  {dbListingToListing(ls[r.listing_id]) :
     r \in {x \in pl : /\ x.message_id = messageId
                       /\ x.batch_position = batchPosition
                       /\ x.listing_id \in DOMAIN ls}}

RECURSIVE PostedRows(_, _, _)
\* The posted_listings rows of the listing ids S with their listings, in
\* listing id order.
PostedRows(ls, pl, S) ==
  IF S = {} THEN <<>>
  ELSE PostedRows(ls, pl, S \ {Max(S)})
       \o <<[listing |-> dbListingToListing(ls[Max(S)]),
              postedInfo |-> CHOOSE r \in pl : r.listing_id = Max(S)]>>

\* Every posted_listings row with its listing, in listing id order.
getPostedListings(ls, pl) ==
  PostedRows(ls, pl, {r.listing_id : r \in {x \in pl : x.listing_id \in DOMAIN ls}})

\* The mutant of updateListingStatus: the update restamps the row, its
\* created_at included.
updateListingStatusRestamps(ls, listingId, status, updatedAt) ==
  IF listingId \in DOMAIN ls
  THEN [ls EXCEPT ![listingId] = [@ EXCEPT !.status = status,
                                           !.updated_at = updatedAt,
                                           !.created_at = updatedAt]]
  ELSE ls

\* setStatus(id, status, updatedAt): the status and updated_at of the row
\* are overwritten.
updateListingStatus(ls, listingId, status, updatedAt) ==
  IF listingId \in DOMAIN ls
  THEN [ls EXCEPT ![listingId] = [@ EXCEPT !.status = status,
                                           !.updated_at = updatedAt]]
  ELSE ls

(***************************************************************************)
(* Batches and message content (bot/formatters.ts).                        *)
(***************************************************************************)
RECURSIVE BatchLoop(_, _, _)
\* The loop of createListingBatches from index i (0-based), number n.
BatchLoop(ls, i, batchNumber) ==
  IF i >= Len(ls) THEN <<>>
  ELSE <<[batch_number |-> batchNumber,
          listings |-> SubSeq(ls, i + 1, Min(i + LISTINGS_PER_BATCH, Len(ls)))]>>
       \o BatchLoop(ls, i + LISTINGS_PER_BATCH, batchNumber + 1)

\* The mutant of createListingBatches: the list is not split.
createListingBatchesWhole(ls) ==
  IF ls = <<>> THEN <<>> ELSE <<[batch_number |-> 1, listings |-> ls]>>

createListingBatches(ls) == BatchLoop(ls, 0, 1)

\* One rendered entry: the number it is shown under, the listing, its status.
formatListingEntry(listing, position) ==
  [number |-> position, id |-> listing.id, status |-> listing.status]

\* createBatchEmbed: the listings of the batch numbered index + 1.
createBatchEmbed(batch) ==
  [k \in DOMAIN batch.listings |-> formatListingEntry(batch.listings[k], k)]

\* createBatchButtons: customId buy:<listing id>:<position>.
createBatchButtons(batch) ==
  [k \in DOMAIN batch.listings |->
     [action |-> "buy", listing_id |-> batch.listings[k].id, batch_position |-> k]]

\* recreateBatchEmbed: the listings it is given numbered index + 1.
recreateBatchEmbed(updatedListings, batchNumber) ==
  [k \in DOMAIN updatedListings |-> formatListingEntry(updatedListings[k], k)]

(***************************************************************************)
(* Events (utils/events.ts).                                               *)
(***************************************************************************)
\* Listeners registered on botEvents by initializeCustomPurchaseLogic: one
\* each for the new-listing, new-batch and button events, none for 'error'.
listenerCount(event) ==
  IF event \in {"listing:new", "listings:new_batch", "purchase:button_clicked"}
  THEN 1 ELSE 0

\* EventEmitter.emit('error', ...) throws when 'error' has no listener.
emitErrorThrows == listenerCount("error") = 0

(***************************************************************************)
(* pollListings and checkStatusChanges (index.ts).                         *)
(***************************************************************************)
\* The mutant of ShouldSkip: the overlap guard is lost.
ShouldSkipNever(processing) == FALSE

\* if (isProcessing) { warn; return; }
ShouldSkip(processing) == processing

\* The mutant of Finally: the flag is left as it is.
FinallyKeeps(processing) == processing

\* finally { isProcessing = false; }
Finally(processing) == FALSE

\* An invocation that is not running. changed and requests are the record
\* of the status scan: the ids found changed, the edits requested so far.
Off ==
  [pc |-> "off", fetched |-> <<>>, groups |-> <<>>, batches |-> <<>>,
   nBatches |-> 0, successCount |-> 0, changed |-> {}, requests |-> <<>>]

\* An invocation past the guard, awaiting getAllListings.
Entered == [Off EXCEPT !.pc = "fetch"]

\* new Map(fetchedListings.map(l => [l.id, l])): the last occurrence wins.
fetchedListingsMap(fetchedListings) ==
  [id \in {fetchedListings[k].id : k \in DOMAIN fetchedListings} |->
     fetchedListings[Max({k \in DOMAIN fetchedListings : fetchedListings[k].id = id})]]

\* The mutant of AddToGroup: every changed listing opens a group of its own.
AddToGroupAlone(groups, postedInfo, listingId) ==
  Append(groups,
         [message_id |-> postedInfo.message_id, channel_id |-> postedInfo.channel_id,
          batchNumber |-> postedInfo.batch_number,
          listings |-> <<[id |-> listingId, position |-> postedInfo.batch_position]>>])

\* messageGroups: one group per message id, in order of first insertion; the
\* changed listing is pushed onto the group of its message.
AddToGroup(groups, postedInfo, listingId) ==
  LET item == [id |-> listingId, position |-> postedInfo.batch_position]
      at == {k \in DOMAIN groups : groups[k].message_id = postedInfo.message_id}
  IN IF at = {}
     THEN Append(groups,
                 [message_id |-> postedInfo.message_id,
                  channel_id |-> postedInfo.channel_id,
                  batchNumber |-> postedInfo.batch_number,
                  listings |-> <<item>>])
     ELSE [groups EXCEPT ![Max(at)].listings = Append(@, item)]

RECURSIVE ScanLoopMarksAbsent(_, _, _, _)
\* The mutant of ScanLoop: a tracked listing the fetch does not hold is
\* written as cancelled and its message is put up for an edit.
ScanLoopMarksAbsent(postedListings, k, fm, acc) ==
  IF k > Len(postedListings) THEN acc
  ELSE LET listing == postedListings[k].listing
           postedInfo == postedListings[k].postedInfo
           status == IF listing.id \in DOMAIN fm THEN fm[listing.id].status
                     ELSE "cancelled"
           updatedAt == IF listing.id \in DOMAIN fm THEN fm[listing.id].updated_at
                        ELSE listing.updated_at + 1
       IN IF status # listing.status
          THEN ScanLoopMarksAbsent(postedListings, k + 1, fm,
                 [ls |-> updateListingStatus(acc.ls, listing.id, status, updatedAt),
                  groups |-> AddToGroup(acc.groups, postedInfo, listing.id),
                  changed |-> acc.changed \cup {listing.id}])
          ELSE ScanLoopMarksAbsent(postedListings, k + 1, fm, acc)

RECURSIVE ScanLoop(_, _, _, _)
\* for (const { listing, postedInfo } of postedListings): acc carries the
\* listings table, messageGroups and the ids found changed.
ScanLoop(postedListings, k, fm, acc) ==
  IF k > Len(postedListings) THEN acc
  ELSE LET listing == postedListings[k].listing
           postedInfo == postedListings[k].postedInfo
       IN IF listing.id \in DOMAIN fm /\ fm[listing.id].status # listing.status
          THEN ScanLoop(postedListings, k + 1, fm,
                 [ls |-> updateListingStatus(acc.ls, listing.id, fm[listing.id].status,
                                             fm[listing.id].updated_at),
                  groups |-> AddToGroup(acc.groups, postedInfo, listing.id),
                  changed |-> acc.changed \cup {listing.id}])
          ELSE ScanLoop(postedListings, k + 1, fm, acc)

\* checkStatusChanges(fetchedListings) up to statusChangedCount: the
\* listings table, messageGroups and the ids found changed after the loop.
StatusScan(ls, pl, fm) ==
  ScanLoop(getPostedListings(ls, pl), 1, fm, [ls |-> ls, groups |-> <<>>, changed |-> {}])

RECURSIVE InsertByPosition(_, _)
InsertByPosition(x, s) ==
  IF s = <<>> THEN <<x>>
  ELSE IF Head(s).position <= x.position
       THEN <<Head(s)>> \o InsertByPosition(x, Tail(s))
       ELSE <<x>> \o s

RECURSIVE SortByPosition(_)
\* groupData.listings.sort((a, b) => a.position - b.position)
SortByPosition(s) ==
  IF s = <<>> THEN <<>>
  ELSE InsertByPosition(s[Len(s)], SortByPosition(SubSeq(s, 1, Len(s) - 1)))

\* The head group is sorted and updateMessageWithStatus is called with its
\* listing ids: the invocation now awaits the edit.
CallEdit(c) ==
  LET sorted == SortByPosition(c.groups[1].listings)
      listingIds == [k \in DOMAIN sorted |-> sorted[k].id]
  IN [c EXCEPT !.pc = "edit",
               !.groups[1].listings = sorted,
               !.requests = Append(@, [message_id |-> c.groups[1].message_id,
                                       listingIds |-> listingIds])]

\* The mutant of DetectNew: the listings of the fetch that are not marked
\* as posted are taken for new, so a cycle without a new listing sends the
\* undelivered ones again.
DetectNewResendsUndelivered(c, ls) ==
  LET newListings == SelectSeq(c.fetched,
                       LAMBDA l : l.id \notin DOMAIN ls \/ ls[l.id].posted_to_discord = 0)
      batches == createListingBatches(newListings)
  IN IF newListings = <<>>
     THEN [c |-> c, ls |-> ls, out |-> "completed"]
     ELSE [c |-> [c EXCEPT !.pc = "send", !.batches = batches,
                           !.nBatches = Len(batches), !.successCount = 0],
           ls |-> insertListings(ls, newListings),
           out |-> "run"]

\* Steps 3 to 6 up to the first send: the existence checks, getNewListings,
\* the fast path, insertListings, createListingBatches.
DetectNew(c, ls) ==
  LET existingIds == {c.fetched[k].id : k \in {j \in DOMAIN c.fetched :
                                                  listingExists(ls, c.fetched[j].id)}}
      newListings == getNewListings(c.fetched, existingIds)
      batches == createListingBatches(newListings)
  IN IF newListings = <<>>
     THEN [c |-> c, ls |-> ls, out |-> "completed"]
     ELSE [c |-> [c EXCEPT !.pc = "send", !.batches = batches,
                           !.nBatches = Len(batches), !.successCount = 0],
           ls |-> insertListings(ls, newListings),
           out |-> "run"]

\* The mutant of ScanAndGo: the new statuses are not written before the
\* edits are requested.
ScanAndGoWritesLater(c, ls, pl) ==
  LET postedListings == getPostedListings(ls, pl)
      acc == ScanLoop(postedListings, 1, fetchedListingsMap(c.fetched),
                      [ls |-> ls, groups |-> <<>>, changed |-> {}])
  IN IF Len(postedListings) = 0 \/ acc.changed = {}
     THEN DetectNew(c, ls)
     ELSE [c |-> CallEdit([c EXCEPT !.groups = acc.groups, !.changed = acc.changed]),
           ls |-> ls,
           out |-> "run"]

\* The mutant of ScanAndGo: checkStatusChanges is not awaited, detection
\* starts as soon as the first edit is requested.
ScanAndGoNotAwaited(c, ls, pl) ==
  LET postedListings == getPostedListings(ls, pl)
      acc == ScanLoop(postedListings, 1, fetchedListingsMap(c.fetched),
                      [ls |-> ls, groups |-> <<>>, changed |-> {}])
  IN IF Len(postedListings) = 0 \/ acc.changed = {}
     THEN DetectNew(c, ls)
     ELSE DetectNew(CallEdit([c EXCEPT !.groups = acc.groups,
                                       !.changed = acc.changed]), acc.ls)

\* checkStatusChanges up to its first await, and what follows when it
\* returns without one.
ScanAndGo(c, ls, pl) ==
  LET postedListings == getPostedListings(ls, pl)
      acc == StatusScan(ls, pl, fetchedListingsMap(c.fetched))
  IN IF Len(postedListings) = 0 \/ acc.changed = {}
     THEN DetectNew(c, ls)
     ELSE [c |-> CallEdit([c EXCEPT !.groups = acc.groups, !.changed = acc.changed]),
           ls |-> acc.ls,
           out |-> "run"]

\* How pollListings settles when an error reaches its catch block: the
\* block calls botEvents.emitError, which throws out of it without an
\* 'error' listener.
CatchOutcome == IF emitErrorThrows THEN "rejected" ELSE "caught"

\* The mutant of FetchFailed: getAllListings settles the two sub-fetches
\* separately and the cycle goes on with the listings of those that
\* succeeded.
FetchFailedPartial(c, ls, pl, sellFailed, buyFailed) ==
  ScanAndGo([c EXCEPT !.fetched =
               SortByCreatedDesc((IF sellFailed THEN <<>> ELSE getSellListings)
                                 \o (IF buyFailed THEN <<>> ELSE getBuyListings))],
            ls, pl)

\* Promise.all rejects as soon as one sub-fetch rejects; getAllListings
\* logs and rethrows, and pollListings goes from its first await to its
\* catch block: nothing is fetched, the store is as it was.
FetchFailed(c, ls, pl, sellFailed, buyFailed) ==
  [c |-> c, ls |-> ls, out |-> CatchOutcome]

\* The invocation leaves the cycle: its locals are dropped.
Leave(c) == Off

\* The state of invocation i after a step that ends in out.
Settle(i, c, out) ==
  IF out = "run"
  THEN /\ cyc' = [cyc EXCEPT ![i] = c]
       /\ UNCHANGED <<isProcessing, pollOutcome>>
  ELSE /\ cyc' = [cyc EXCEPT ![i] = Leave(c)]
       /\ isProcessing' = Finally(isProcessing)
       /\ pollOutcome' = out

(***************************************************************************)
(* Posting and editing (bot/discord.ts).                                   *)
(***************************************************************************)
\* The mutant of RecordLoop: every record of the batch gets position 1.
RecordLoopFirstPosition(pl, batch, i, messageId, targetChannelId) ==
  pl \cup {[listing_id |-> batch.listings[k].id, message_id |-> messageId,
             channel_id |-> targetChannelId, batch_number |-> batch.batch_number,
             batch_position |-> 1] : k \in (i + 1)..Len(batch.listings)}

RECURSIVE RecordLoop(_, _, _, _, _)
\* for (let i = 0; ...) insertPostedListing({..., batch_position: i + 1})
RecordLoop(pl, batch, i, messageId, targetChannelId) ==
  IF i >= Len(batch.listings) THEN pl
  ELSE RecordLoop(
         insertPostedListing(pl,
           [listing_id |-> batch.listings[i + 1].id, message_id |-> messageId,
            channel_id |-> targetChannelId, batch_number |-> batch.batch_number,
            batch_position |-> i + 1]),
         batch, i + 1, messageId, targetChannelId)

\* The message channel.send creates for a batch.
SentMessage(batch, targetChannelId) ==
  [channel_id |-> targetChannelId,
   embed |-> createBatchEmbed(batch),
   components |-> createBatchButtons(batch)]

\* The loop of postListingsToDiscord after a batch is dealt with: the next
\* batch is sent, or the function returns and the cycle completes.
NextBatch(c) ==
  IF c.batches = <<>>
  THEN [c |-> c, out |-> "completed"]
  ELSE [c |-> [c EXCEPT !.pc = "send"], out |-> "run"]

\* if (message) { successCount++; if (successCount < batches.length) delay }
AfterSent(c) ==
  LET d == [c EXCEPT !.successCount = @ + 1, !.batches = Tail(@)]
  IN IF d.successCount < d.nBatches
     THEN [c |-> [d EXCEPT !.pc = "sendDelay"], out |-> "run"]
     ELSE NextBatch(d)

\* The mutant of AfterNull: the batch that came back null is sent again.
AfterNullRetries(c) == NextBatch(c)

\* postBatchToDiscord returned null: no count, no delay.
AfterNull(c) == NextBatch([c EXCEPT !.batches = Tail(@)])

\* The Listings updateMessageWithStatus reads back for the ids it is given.
UpdatedListings(ls, listingIds) ==
  LET found == SelectSeq(listingIds, LAMBDA id : getListingById(ls, id) # {})
  IN [k \in DOMAIN found |-> CHOOSE l \in getListingById(ls, found[k]) : TRUE]

\* The mutant of EditReturned: a failed edit ends the loop over the
\* affected messages.
EditReturnedAborts(c, edited) ==
  IF edited THEN [c EXCEPT !.pc = "editDelay"]
  ELSE [c EXCEPT !.pc = "editDelay", !.groups = <<c.groups[1]>>]

\* await updateMessageWithStatus(...): its boolean result is not looked at,
\* the 200 ms pause follows in either case.
EditReturned(c, edited) == [c EXCEPT !.pc = "editDelay"]

(***************************************************************************)
(* The state machine.                                                      *)
(***************************************************************************)
\* main() has run: the cron job is scheduled, the client is logged in, the
\* database is open, the process has not exited. log is the history of the
\* teardown calls that released something, and of the exit.
Started ==
  [pollingJob |-> "scheduled", discordClient |-> "ready", db |-> "open",
   exitCode |-> Null, log |-> <<>>]

\* if (pollingJob) { pollingJob.stop(); pollingJob = null; }
stopPolling(p) ==
  IF p.pollingJob # "null"
  THEN [p EXCEPT !.pollingJob = "null", !.log = Append(@, "stopPolling")]
  ELSE p

\* if (discordClient) { discordClient.destroy(); discordClient = null; }
disconnectDiscordBot(p) ==
  IF p.discordClient # "null"
  THEN [p EXCEPT !.discordClient = "null", !.log = Append(@, "disconnectDiscordBot")]
  ELSE p

\* if (db) { db.close(); db = null; }
closeDatabase(p) ==
  IF p.db # "null"
  THEN [p EXCEPT !.db = "null", !.log = Append(@, "closeDatabase")]
  ELSE p

\* The mutant of processExit: the call returns and the process goes on.
processExitReturns(p, code) == p

\* process.exit(code): the process ends there and then.
processExit(p, code) == [p EXCEPT !.exitCode = Some(code), !.log = Append(@, "exit")]

\* No function is called from outside the program's own control flow.
NoCall == [op |-> "none"]

\* main() has run: the store is open and empty, the bot is connected, the
\* cron job is scheduled and the initial poll is past its guard, awaiting
\* the fetch.
Init ==
  /\ isProcessing = TRUE
  /\ cyc = [i \in Slots |-> IF i = 1 THEN Entered ELSE Off]
  /\ listings = <<>>
  /\ posted_listings = {}
  /\ messages = <<>>
  /\ remote = [id \in Ids |-> "none"]
  /\ pollOutcome = "none"
  /\ tickFlip = FALSE
  /\ cycles = 1
  /\ nullIds = {}
  /\ call = NoCall
  /\ proc = Started

\* The cron job fires and calls pollListings.
CronTick ==
  /\ tickFlip' = ~tickFlip
  /\ IF ShouldSkip(isProcessing)
     THEN UNCHANGED <<isProcessing, cyc, cycles>>
     ELSE /\ cycles < MaxCycles
          /\ cycles' = cycles + 1
          /\ \E i \in Slots :
               /\ cyc[i].pc = "off"
               /\ \A j \in Slots : j < i => cyc[j].pc # "off"
               /\ cyc' = [cyc EXCEPT ![i] = Entered]
          /\ isProcessing' = TRUE
  /\ UNCHANGED <<listings, posted_listings, messages, remote, pollOutcome,
                 nullIds>>
  /\ UNCHANGED <<call, proc>>

\* getAllListings resolves; the status scan runs up to its first edit, or
\* through to the first send or the end of the cycle.
FetchResolve(i) ==
  /\ cyc[i].pc = "fetch"
  /\ \E fetchedListings \in {getAllListings} :
       \E r \in {ScanAndGo([cyc[i] EXCEPT !.fetched = fetchedListings],
                            listings, posted_listings)} :
         /\ listings' = r.ls
         /\ Settle(i, r.c, r.out)
  /\ UNCHANGED <<posted_listings, messages, remote, tickFlip, cycles, nullIds>>
  /\ UNCHANGED <<call, proc>>

\* A sub-fetch fails: getAllListings rethrows into the catch of pollListings.
FetchReject(i) ==
  /\ cyc[i].pc = "fetch"
  /\ \E sellFailed, buyFailed \in BOOLEAN :
       /\ sellFailed \/ buyFailed
       /\ LET r == FetchFailed(cyc[i], listings, posted_listings, sellFailed, buyFailed)
          IN /\ listings' = r.ls
             /\ Settle(i, r.c, r.out)
  /\ UNCHANGED <<posted_listings, messages, remote, tickFlip, cycles, nullIds>>
  /\ UNCHANGED <<call, proc>>

\* updateMessageWithStatus finishes: the message is edited (ok), or the
\* channel or message is not found or the transport raises (fail: false is
\* returned). Then the 200 ms pause starts.
EditResolve(i) ==
  /\ cyc[i].pc = "edit"
  /\ LET g == cyc[i].groups[1]
         listingIds == [k \in DOMAIN g.listings |-> g.listings[k].id]
         updatedListings == UpdatedListings(listings, listingIds)
     IN \E ok \in BOOLEAN :
          /\ IF ok /\ g.message_id \in DOMAIN messages /\ updatedListings # <<>>
             THEN messages' = [messages EXCEPT ![g.message_id].embed =
                                 recreateBatchEmbed(updatedListings, g.batchNumber)]
             ELSE UNCHANGED messages
          /\ cyc' = [cyc EXCEPT ![i] =
                       EditReturned(cyc[i], ok /\ g.message_id \in DOMAIN messages
                                               /\ updatedListings # <<>>)]
  /\ UNCHANGED <<isProcessing, listings, posted_listings, remote, pollOutcome,
                 tickFlip, cycles, nullIds>>
  /\ UNCHANGED <<call, proc>>

\* The pause after an edit ends: the next message is edited, or the scan
\* returns and the cycle goes on with the new listings.
EditDelayDone(i) ==
  /\ cyc[i].pc = "editDelay"
  /\ LET c == [cyc[i] EXCEPT !.groups = Tail(@)]
     IN \E r \in {IF c.groups # <<>>
                   THEN [c |-> CallEdit(c), ls |-> listings, out |-> "run"]
                   ELSE DetectNew(c, listings)} :
          /\ listings' = r.ls
          /\ Settle(i, r.c, r.out)
  /\ UNCHANGED <<posted_listings, messages, remote, tickFlip, cycles, nullIds>>
  /\ UNCHANGED <<call, proc>>

\* postBatchToDiscord: the message is sent and its listings are recorded and
\* marked as posted.
SendOk(i) ==
  /\ cyc[i].pc = "send"
  /\ LET batch == cyc[i].batches[1]
         messageId == Len(messages) + 1
         listingIds == [k \in DOMAIN batch.listings |-> batch.listings[k].id]
         r == AfterSent(cyc[i])
     IN /\ messages' = Append(messages, SentMessage(batch, ChannelId))
        /\ posted_listings' = RecordLoop(posted_listings, batch, 0, messageId, ChannelId)
        /\ listings' = markListingsAsPosted(listings, listingIds)
        /\ Settle(i, r.c, r.out)
  /\ UNCHANGED <<remote, tickFlip, cycles, nullIds>>
  /\ UNCHANGED <<call, proc>>

\* postBatchToDiscord: the channel is not found or not text based.
SendNull(i) ==
  /\ cyc[i].pc = "send"
  /\ LET batch == cyc[i].batches[1]
         r == AfterNull(cyc[i])
     IN /\ nullIds' = nullIds \cup {batch.listings[k].id : k \in DOMAIN batch.listings}
        /\ Settle(i, r.c, r.out)
  /\ UNCHANGED <<listings, posted_listings, messages, remote, tickFlip, cycles>>
  /\ UNCHANGED <<call, proc>>

\* postBatchToDiscord: the channel lookup or the send raises. Its catch
\* block calls emitError; when that throws the error leaves
\* postListingsToDiscord and reaches the catch of pollListings.
SendThrow(i) ==
  /\ cyc[i].pc = "send"
  /\ LET r == IF emitErrorThrows
              THEN [c |-> cyc[i], out |-> CatchOutcome]
              ELSE AfterNull(cyc[i])
     IN Settle(i, r.c, r.out)
  /\ UNCHANGED <<listings, posted_listings, messages, remote, tickFlip, cycles,
                 nullIds>>
  /\ UNCHANGED <<call, proc>>

\* The 500 ms pause after a sent batch ends.
SendDelayDone(i) ==
  /\ cyc[i].pc = "sendDelay"
  /\ LET r == NextBatch(cyc[i])
     IN Settle(i, r.c, r.out)
  /\ UNCHANGED <<listings, posted_listings, messages, remote, tickFlip,
                 cycles, nullIds>>
  /\ UNCHANGED <<call, proc>>

\* The remote source is read by getAllListings alone, so what it does
\* between two fetches is taken while a fetch is awaited.
FetchAwaited == \E i \in Slots : cyc[i].pc = "fetch"

\* The remote source lists a new offer.
Publish ==
  /\ FetchAwaited
  /\ \E id \in Ids :
       /\ remote[id] = "none"
       /\ \A j \in Ids : j < id => remote[j] # "none"
       /\ remote' = [remote EXCEPT ![id] = "active"]
  /\ UNCHANGED <<isProcessing, cyc, listings, posted_listings, messages,
                 pollOutcome, tickFlip, cycles, nullIds>>
  /\ UNCHANGED <<call, proc>>

\* The status of a listed offer changes at the remote source.
StatusChange ==
  /\ FetchAwaited
  /\ \E id \in Ids :
       /\ remote[id] = "active"
       /\ remote' = [remote EXCEPT ![id] = "in-progress"]
       /\ Cardinality({j \in Ids : remote'[j] \notin {"none", "active"}}) <= MaxChanged
  /\ UNCHANGED <<isProcessing, cyc, listings, posted_listings, messages,
                 pollOutcome, tickFlip, cycles, nullIds>>
  /\ UNCHANGED <<call, proc>>

\* A step of a running cycle: an awaited call resolves or rejects.
CycleStep ==
  \E i \in Slots :
    \/ FetchReject(i)
    \/ FetchResolve(i)
    \/ EditResolve(i)
    \/ EditDelayDone(i)
    \/ SendOk(i)
    \/ SendNull(i)
    \/ SendThrow(i)
    \/ SendDelayDone(i)

Next ==
  \/ CronTick
  \/ CycleStep
  \/ Publish
  \/ StatusChange

Spec == Init /\ [][Next]_vars

\* Every awaited external call eventually resolves or rejects.
LiveSpec == Spec /\ WF_vars(CycleStep)

\* A listener of the new-listing events throws: emitNewListingsBatch or
\* emitNewListing, called between insertListings and postListingsToDiscord,
\* lets the error through into the catch block of pollListings. r is the
\* outcome of the step had no listener thrown.
NewListingObserverThrows(i, r) ==
  /\ r.out = "run" /\ r.c.pc = "send"
  /\ listings' = r.ls
  /\ Settle(i, r.c, CatchOutcome)
  /\ UNCHANGED <<posted_listings, messages, remote, tickFlip, cycles, nullIds>>
  /\ UNCHANGED <<call, proc>>

\* getAllListings resolves, the scan finds nothing changed, new listings
\* are inserted and a listener throws.
FetchResolveObserverThrows(i) ==
  /\ cyc[i].pc = "fetch"
  /\ \E fetchedListings \in {getAllListings} :
       \E r \in {ScanAndGo([cyc[i] EXCEPT !.fetched = fetchedListings],
                            listings, posted_listings)} :
         NewListingObserverThrows(i, r)

\* The pause after the last edit ends, new listings are inserted and a
\* listener throws.
EditDelayDoneObserverThrows(i) ==
  /\ cyc[i].pc = "editDelay"
  /\ Len(cyc[i].groups) = 1
  /\ \E r \in {DetectNew([cyc[i] EXCEPT !.groups = Tail(@)], listings)} :
       NewListingObserverThrows(i, r)

\* postBatchToDiscord: the message is sent, its listings are recorded and
\* marked, and a listener of the batch-posted or listing-posted event
\* throws inside the try block: the catch block calls emitError and
\* returns null if that returns.
SendOkObserverThrows(i) ==
  /\ cyc[i].pc = "send"
  /\ LET batch == cyc[i].batches[1]
         messageId == Len(messages) + 1
         listingIds == [k \in DOMAIN batch.listings |-> batch.listings[k].id]
         r == IF emitErrorThrows
              THEN [c |-> cyc[i], out |-> CatchOutcome]
              ELSE AfterNull(cyc[i])
     IN /\ messages' = Append(messages, SentMessage(batch, ChannelId))
        /\ posted_listings' = RecordLoop(posted_listings, batch, 0, messageId, ChannelId)
        /\ listings' = markListingsAsPosted(listings, listingIds)
        /\ Settle(i, r.c, r.out)
  /\ UNCHANGED <<remote, tickFlip, cycles, nullIds>>
  /\ UNCHANGED <<call, proc>>

\* A step of a cycle in which a registered listener throws.
ObserverThrows ==
  \E i \in Slots :
    \/ FetchResolveObserverThrows(i)
    \/ EditDelayDoneObserverThrows(i)
    \/ SendOkObserverThrows(i)

ObserverNext ==
  \/ Next
  \/ ObserverThrows

\* The program with listeners that may throw registered on botEvents.
ObserverSpec == Init /\ [][ObserverNext]_vars

\* The signals main() installs shutdown for.
Signals == {"SIGINT", "SIGTERM"}

\* SIGINT or SIGTERM arrives: shutdown(signal) runs from its first line to
\* process.exit(0) without an await, so no step of a suspended cycle runs
\* in between.
Shutdown ==
  /\ proc.exitCode = Null
  /\ \E signal \in Signals :
       proc' = processExit(closeDatabase(disconnectDiscordBot(stopPolling(proc))), 0)
  /\ UNCHANGED <<isProcessing, cyc, listings, posted_listings, messages, remote,
                 pollOutcome, tickFlip, cycles, nullIds, call>>

\* A step of the program while the process lives.
ProgramStep == proc.exitCode = Null /\ Next

ShutdownNext ==
  \/ ProgramStep
  \/ Shutdown

\* The program with the signal handlers of main().
ShutdownSpec == Init /\ [][ShutdownNext]_vars

(***************************************************************************)
(* Properties.                                                             *)
(***************************************************************************)
\* The invocations of pollListings that are past the guard.
Running == {i \in Slots : cyc[i].pc # "off"}

\* The (message, position) pairs whose buy button names listing id.
ShownAt(id) ==
  {mk \in (DOMAIN messages) \X (1..LISTINGS_PER_BATCH) :
     /\ mk[2] \in DOMAIN messages[mk[1]].components
     /\ messages[mk[1]].components[mk[2]].listing_id = id}

\* The DeliveryRecords of listing id.
RecordsOf(id) == {r \in posted_listings : r.listing_id = id}

\* The ids of the batches invocation i has not yet dealt with (the batch
\* whose send is in flight included).
PendingIds(i) ==
  UNION {{cyc[i].batches[b].listings[k].id : k \in DOMAIN cyc[i].batches[b].listings} :
           b \in DOMAIN cyc[i].batches}

\* C1: at any time at most one execution of pollListings is past the
\* isProcessing guard, whatever the interleaving of timer ticks with the
\* suspension points of the running cycle.
C1_AtMostOneCycle == Cardinality(Running) <= 1

\* A timer tick has fired while the first cycle was waiting out the pause
\* between two batch sends.
C1_Witness ==
  /\ cycles = 1
  /\ tickFlip
  /\ \E i \in Slots : cyc[i].pc = "sendDelay"

\* C2: a tick that fires while isProcessing is true is a no-op: the flag
\* stays true and neither the store, the channel, the running cycle nor the
\* count of started cycles changes, so nothing is queued.
C2_SkippedTickIsNoOp ==
  [][(tickFlip' # tickFlip /\ isProcessing) =>
       /\ isProcessing'
       /\ UNCHANGED <<cyc, listings, posted_listings, messages, remote,
                      pollOutcome, cycles, nullIds>>]_vars

\* A tick has been skipped while a batch send of the first cycle is in
\* flight.
C2_Witness ==
  /\ cycles = 1
  /\ tickFlip
  /\ \E i \in Slots : cyc[i].pc = "send" /\ cyc[i].successCount = 0

\* C3: every cycle that enters Polling returns to Idle, whether it
\* completes, takes the fast path or a step throws (LiveSpec: every awaited
\* call eventually settles).
C3_CycleReturnsToIdle == isProcessing ~> ~isProcessing

\* A cycle has ended through the catch block and the scheduler is Idle.
C3_Witness ==
  /\ ~isProcessing
  /\ pollOutcome \in {"rejected", "caught"}
  /\ messages # <<>>

\* C4 (as claimed): an exception raised by a step of a cycle is caught at
\* the cycle boundary and does not propagate out of pollListings.
C4_ErrorCaughtAtBoundary == pollOutcome # "rejected"

\* C5: each listing id is rendered in at most one sent message, at one
\* position, and has at most one DeliveryRecord, which names that message
\* and position.
C5_DeliveredAtMostOnce ==
  \A id \in Ids :
    /\ Cardinality(ShownAt(id)) <= 1
    /\ Cardinality(RecordsOf(id)) <= 1
    /\ \A r \in RecordsOf(id) : <<r.message_id, r.batch_position>> \in ShownAt(id)

\* The second cycle has completed: listing 1 was delivered in message 1 by
\* the first cycle, was fetched again, and the second cycle delivered its
\* own first batch as message 2.
C5_Witness ==
  /\ cycles = 2
  /\ ~isProcessing
  /\ pollOutcome = "completed"
  /\ \E r \in RecordsOf(1) : r.message_id = 1
  /\ \E r \in posted_listings : r.message_id = 2 /\ r.batch_number = 1

\* C6 (as claimed): every edit request of the status scan names all the
\* listings recorded for its message, changed and unchanged alike.
C6_EditCoversWholeMessage ==
  \A i \in Slots : \A k \in DOMAIN cyc[i].requests :
    Range(cyc[i].requests[k].listingIds) =
      {r.listing_id : r \in {x \in posted_listings :
                               x.message_id = cyc[i].requests[k].message_id}}

\* C7 (as claimed): in every message, edited or not, each listing is shown
\* under the position number of its buy button.
C7_EditPreservesPositions ==
  \A m \in DOMAIN messages : \A k \in DOMAIN messages[m].embed :
    LET e == messages[m].embed[k]
    IN /\ e.number \in DOMAIN messages[m].components
       /\ messages[m].components[e.number].listing_id = e.id

\* The messages that hold a listing the scan of invocation i found changed.
ChangedMessages(i) ==
  {r.message_id : r \in {x \in posted_listings : x.listing_id \in cyc[i].changed}}

\* The scan of invocation i has called updateMessageWithStatus for its last
\* group, or has returned.
AllEditsRequested(i) ==
  \/ cyc[i].pc \in {"send", "sendDelay"}
  \/ cyc[i].pc \in {"edit", "editDelay"} /\ Len(cyc[i].groups) = 1

\* C8: the status scan requests exactly one edit for each message that
\* holds a changed listing, however many of them changed, and none for any
\* other message.
C8_OneEditPerChangedMessage ==
  \A i \in Running :
    LET rq == cyc[i].requests
    IN /\ \A j, k \in DOMAIN rq : j # k => rq[j].message_id # rq[k].message_id
       /\ \A k \in DOMAIN rq : rq[k].message_id \in ChangedMessages(i)
       /\ AllEditsRequested(i) =>
            {rq[k].message_id : k \in DOMAIN rq} = ChangedMessages(i)

\* Two listings of one message changed and the scan has requested its one
\* edit and gone on to post new listings.
C8_Witness ==
  \E i \in Running :
    /\ cyc[i].pc = "send"
    /\ Cardinality(cyc[i].changed) = 2
    /\ Cardinality(ChangedMessages(i)) = 1
    /\ Len(cyc[i].requests) = 1

\* C9: the listings of a batch for which postBatchToDiscord returned null
\* stay in the store without the delivered flag and without a
\* DeliveryRecord, are in no message, and are in no batch of any later
\* cycle.
C9_NullBatchStaysDropped ==
  \A id \in nullIds :
    /\ id \in DOMAIN listings
    /\ listings[id].posted_to_discord = 0
    /\ RecordsOf(id) = {}
    /\ ShownAt(id) = {}
    /\ \A i \in Slots : id \notin PendingIds(i)

\* The batch of listing 1 came back null, and a later cycle, which fetched
\* listing 1 again, is sending a batch.
C9_Witness ==
  /\ 1 \in nullIds
  /\ remote[1] # "none"
  /\ cycles = 2
  /\ \E i \in Slots : cyc[i].pc = "send" /\ cyc[i].batches[1].batch_number = 1

\* C10: a listing carries the delivered flag or a DeliveryRecord only if a
\* send has returned the message that shows it; the listings of a batch
\* whose send has not completed or came back null carry neither.
C10_FlagOnlyAfterSend ==
  /\ \A id \in DOMAIN listings :
       (listings[id].posted_to_discord = 1 \/ RecordsOf(id) # {}) => ShownAt(id) # {}
  /\ \A i \in Slots : \A id \in PendingIds(i) \cup nullIds :
       /\ id \in DOMAIN listings => listings[id].posted_to_discord = 0
       /\ RecordsOf(id) = {}

\* The first batch of a cycle has been sent and recorded while the send of
\* its second batch is in flight.
C10_Witness ==
  \E i \in Slots :
    /\ cyc[i].pc = "send"
    /\ cyc[i].successCount = 1
    /\ cyc[i].nBatches = 2
    /\ \E id \in DOMAIN listings : listings[id].posted_to_discord = 1

\* C11 (as claimed): a failed send is isolated: an invocation leaves the
\* loop of postListingsToDiscord only from the send of its last batch, so
\* every batch of the cycle is attempted.
C11_FailedSendIsIsolated ==
  [][\A i \in Slots :
       (cyc[i].pc = "send" /\ cyc'[i].pc = "off") => Len(cyc[i].batches) = 1]_vars

\* C12: an edit that fails (the message is left as it was) does not abort
\* the status scan: the invocation goes on to the pause with all its
\* remaining groups, and after the pause requests the edit of the next
\* affected message.
C12_FailedEditIsIsolated ==
  [][\A i \in Slots :
       /\ (cyc[i].pc = "edit" /\ cyc'[i] # cyc[i] /\ messages' = messages) =>
            /\ cyc'[i].pc = "editDelay"
            /\ cyc'[i].groups = cyc[i].groups
       /\ (cyc[i].pc = "editDelay" /\ Len(cyc[i].groups) > 1 /\ cyc'[i] # cyc[i]) =>
            /\ cyc'[i].pc = "edit"
            /\ Len(cyc'[i].requests) = Len(cyc[i].requests) + 1
            /\ cyc'[i].requests[Len(cyc'[i].requests)].message_id =
                 cyc[i].groups[2].message_id]_vars

\* The edit of the first affected message failed (it still shows a changed
\* listing with its old status while the store has the new one) and the edit of the second
\* affected message has been requested.
C12_Witness ==
  \E i \in Slots :
    /\ cyc[i].pc = "edit"
    /\ Len(cyc[i].requests) = 2
    /\ LET m == cyc[i].requests[1].message_id
       IN \E k \in DOMAIN messages[m].embed :
            /\ messages[m].embed[k].id \in cyc[i].changed
            /\ messages[m].embed[k].status # listings[messages[m].embed[k].id].status

(***************************************************************************)
(* Functions called directly, on arguments drawn from bounded sets.        *)
(***************************************************************************)
\* Longest list passed to getNewListings.
MaxLen == 3

\* A Listing with the given id and status.
ListingOf(id, status) == transformApiListing(ApiRecord(id, status))

\* The lists of at most n elements of S.
SeqsUpTo(S, n) == UNION {[1..k -> S] : k \in 0..n}

\* getNewListings(fetchedListings, existingListingIds) on every list of
\* listings with ids of the set ids (they may repeat) and every set of
\* known ids.
GetNewListingsCalls(ids) ==
  {[op |-> "getNewListings", done |-> FALSE, result |-> <<>>,
    fetchedListings |-> F, existingListingIds |-> K] :
     F \in SeqsUpTo({ListingOf(id, "active") : id \in ids}, MaxLen),
     K \in SUBSET ids}

\* Longest list passed to createListingBatches.
MaxBatchInput == 11

\* createListingBatches(listings) on the lists of 0..MaxBatchInput
\* listings with ids ascending or descending from a first id.
CreateListingBatchesCalls ==
  {[op |-> "createListingBatches", done |-> FALSE, result |-> <<>>,
    listings |-> [k \in 1..n |-> ListingOf(IF up THEN first + k ELSE first - k, st)]] :
     n \in 0..MaxBatchInput, up \in BOOLEAN, first \in {20, 40}, st \in Statuses}

\* The wanted items a raw record can carry, with and without a rarity.
WantedItems ==
  {[name |-> "Wires", icon |-> "wires.webp", rarity |-> r] : r \in {Null, Some("rare")}}

\* The raw records of the type ApiListing with the given id and type: the
\* price and each of the three wanted fields null or not.
ApiListings(id, types) ==
  {[id |-> id, listing_type |-> t, status |-> "active", created_at |-> CreatedAt(id),
    updated_at |-> CreatedAt(id), item_id |-> "iron-scrap", quantity |-> 1,
    item |-> [name |-> "Iron Scrap", icon |-> "iron-scrap.webp", rarity |-> Some("common")],
    price |-> p, wanted_item_id |-> wid, wanted_quantity |-> wq, wanted_item |-> wi] :
     t \in types, p \in {Null, Some(0), Some(7)}, wid \in {Null, Some("wires")},
     wq \in {Null, Some(2)}, wi \in {Null} \cup {Some(w) : w \in WantedItems}}

\* transformApiListing(apiListing) on every such record.
TransformApiListingCalls ==
  {[op |-> "transformApiListing", done |-> FALSE, threw |-> FALSE, result |-> {},
    apiListing |-> a] : a \in ApiListings(1, {"sell", "buy"})}

\* Longest response passed through getSellListings.
MaxRecords == 2

\* The raw records of a response: a price or none, a wanted item (all three
\* fields) or none.
ResponseRecords(id) ==
  {a \in ApiListings(id, {"sell"}) :
     /\ a.price # Some(0)
     /\ a.wanted_item # Some([name |-> "Wires", icon |-> "wires.webp", rarity |-> Null])
     /\ (a.wanted_item = Null) = (a.wanted_item_id = Null)
     /\ (a.wanted_item = Null) = (a.wanted_quantity = Null)}

\* getSellListings() on every response of at most MaxRecords records, the
\* newest first.
GetSellListingsCalls ==
  {[op |-> "getSellListings", done |-> FALSE, threw |-> FALSE, result |-> <<>>,
    data |-> d] :
     d \in UNION {{f \in [1..n -> UNION {ResponseRecords(id) : id \in 1..MaxRecords}] :
                     \A k \in 1..n : f[k].id = n + 1 - k} : n \in 0..MaxRecords}}

\* Longest text of the POLL_INTERVAL setting.
MaxChars == 4

\* The characters of the setting: some digits, a sign, a letter.
Chars == {"0", "1", "5", "9", "-", "x"}

\* The value of a decimal digit; no value for any other character.
DigitValue(ch) ==
  {d \in 0..9 : <<"0", "1", "2", "3", "4", "5", "6", "7", "8", "9">>[d + 1] = ch}

RECURSIVE LeadingDigits(_)
\* The longest prefix of digits.
LeadingDigits(chars) ==
  IF chars = <<>> \/ DigitValue(Head(chars)) = {} THEN <<>>
  ELSE <<Head(chars)>> \o LeadingDigits(Tail(chars))

RECURSIVE DecimalValue(_)
DecimalValue(digits) ==
  IF digits = <<>> THEN 0
  ELSE 10 * DecimalValue(SubSeq(digits, 1, Len(digits) - 1))
       + (CHOOSE v \in DigitValue(digits[Len(digits)]) : TRUE)

\* parseInt(string, 10) of a text without white space: an optional sign,
\* then the leading digits; the set of the number read, empty for NaN.
parseIntOf(chars) ==
  LET signed == chars # <<>> /\ Head(chars) = "-"
      digits == LeadingDigits(IF signed THEN Tail(chars) ELSE chars)
  IN IF digits = <<>> THEN {}
     ELSE {IF signed THEN 0 - DecimalValue(digits) ELSE DecimalValue(digits)}

\* The default of POLL_INTERVAL, as text.
DefaultPollInterval == <<"5", "0", "0", "0">>

\* loadConfig: parseInt(process.env.POLL_INTERVAL || '5000', 10); an
\* interval that is NaN or below 1000 is warned about and kept.
pollIntervalOf(env) ==
  parseIntOf(IF env = Null \/ env = Some(<<>>) THEN DefaultPollInterval
             ELSE CHOOSE t \in env : TRUE)

\* startPolling: Math.floor(config.polling.interval / 1000), the step of
\* the cron expression; none for NaN.
intervalSeconds(interval) == {n \div 1000 : n \in interval}

\* loadConfig() and startPolling() for POLL_INTERVAL unset or set to any
\* text of at most n characters.
LoadConfigCalls(n) ==
  {[op |-> "loadConfig", done |-> FALSE, interval |-> {}, intervalSeconds |-> {},
    POLL_INTERVAL |-> env] :
     env \in {Null} \cup {Some(t) : t \in SeqsUpTo(Chars, n)}}

\* Longest result of a sub-fetch passed to the merge of getAllListings.
MaxFetched == 2
\* The created_at times of the listings of these results: 1..MaxTimes.
MaxTimes == 2

\* The results a sub-fetch of type t can resolve with: at most m listings
\* in any order of time, equal times included.
SubFetchResults(t, m) ==
  UNION {[1..n -> {[id |-> id, type |-> t, status |-> "active", created_at |-> at] :
                     id \in {j \in 1..(2 * m) : TypeOf(j) = t},
                     at \in 1..MaxTimes}] : n \in 0..m}

\* getAllListings() for every pair of results of at most m listings of
\* the two sub-fetches in which no id comes twice.
GetAllListingsCalls(m) ==
  {[op |-> "getAllListings", done |-> FALSE, result |-> <<>>,
    sellListings |-> sl, buyListings |-> bl] :
     sl \in {l \in SubFetchResults("sell", m) :
               \A j, k \in DOMAIN l : j # k => l[j].id # l[k].id},
     bl \in {l \in SubFetchResults("buy", m) :
               \A j, k \in DOMAIN l : j # k => l[j].id # l[k].id}}

\* The decimal text of the batch positions, as createBatchButtons writes
\* them into a customId.
PositionText == <<"1", "2", "3", "4", "5">>

\* Most parts, separated by colons, of a customId given to
\* parseButtonCustomId.
MaxParts == 4

\* The texts between the colons of such a customId.
PartTexts ==
  {<<"b", "u", "y">>, <<"s", "e", "l", "l">>, <<>>, <<"1">>, <<"5">>, <<"1", "x">>,
   <<"x">>, <<"a", "1">>}

\* The ids of listings, as text.
IdTexts == {<<"1">>, <<"a", "1">>, <<"x">>}

RECURSIVE JoinColon(_)
\* The parts written one after the other with a colon in between.
JoinColon(parts) ==
  IF Len(parts) = 1 THEN parts[1]
  ELSE parts[1] \o <<":">> \o JoinColon(Tail(parts))

RECURSIVE SplitColon(_)
\* customId.split(':')
SplitColon(chars) ==
  IF chars = <<>> THEN <<<<>>>>
  ELSE LET rest == SplitColon(Tail(chars))
       IN IF Head(chars) = ":" THEN <<<<>>>> \o rest
          ELSE <<<<Head(chars)>> \o rest[1]>> \o Tail(rest)

\* `buy:${listing.id}:${position}`, the customId createBatchButtons gives
\* the button of the listing at position.
customIdOf(listingId, position) ==
  <<"b", "u", "y", ":">> \o listingId \o <<":", PositionText[position]>>

\* parseButtonCustomId(customId) on the text of a customId: the set of the
\* ButtonData returned, empty for null; batch_position is the set of the
\* number parseInt read, empty for NaN.
parseButtonCustomIdOf(customId) ==
  LET parts == SplitColon(customId)
  IN IF Len(parts) # 3 \/ parts[1] # <<"b", "u", "y">> THEN {}
     ELSE {[action |-> "buy", listing_id |-> parts[2],
            batch_position |-> parseIntOf(parts[3])]}

\* parseButtonCustomId(customId) on the customIds of the buttons and on
\* every text of at most n parts.
ParseButtonCustomIdCalls(n) ==
  {[op |-> "parseButtonCustomId", done |-> FALSE, customId |-> customId, result |-> {}] :
     customId \in {customIdOf(listingId, position) :
                     listingId \in IdTexts, position \in 1..LISTINGS_PER_BATCH}
                  \cup {JoinColon(parts) : parts \in SeqsUpTo(PartTexts, n) \ {<<>>}}}

\* Most delivered listings in a store passed to checkStatusChanges.
MaxTracked == 2

\* The stores checkStatusChanges can find n delivered listings in: the
\* listings 1..n in any statuses, delivered as one message or as one
\* message each.
TrackedStores(n) ==
  {[ls |-> markListingsAsPosted(insertListings(<<>>, L), [k \in 1..n |-> L[k].id]),
    pl |-> IF together
           THEN RecordLoop({}, createListingBatches(L)[1], 0, 1, ChannelId)
           ELSE UNION {RecordLoop({}, createListingBatches(<<L[k]>>)[1], 0, k, ChannelId) :
                         k \in 1..n}] :
     L \in {[k \in 1..n |-> ListingOf(k, st[k])] : st \in [1..n -> Statuses]},
     together \in BOOLEAN}

\* The maps pollListings can build from a fetch: any of the listings
\* 1..n + 1, each in any status.
FetchedMaps(n) ==
  {[id \in S |-> ListingOf(id, st[id])] :
     S \in SUBSET (1..(n + 1)), st \in [1..(n + 1) -> Statuses]}

\* checkStatusChanges(fetchedListings) up to the end of its loop, on every
\* such store and map.
CheckStatusChangesCalls(n) ==
  {[op |-> "checkStatusChanges", done |-> FALSE, ls |-> s.ls, pl |-> s.pl, fm |-> fm,
    result |-> [ls |-> <<>>, groups |-> <<>>, changed |-> {}]] :
     s \in UNION {TrackedStores(m) : m \in 1..n}, fm \in FetchedMaps(n)}

\* Longest list passed to insertListings.
MaxInserted == 2

\* The listings tables insertListings can find: the listings 1..n, active
\* or completed, those of P delivered (0 is the id of no listing).
ListingTables(n) ==
  {markListingsAsPosted(insertListings(<<>>, [k \in 1..n |-> ListingOf(k, st[k])]),
                        [k \in 1..n |-> IF k \in P THEN k ELSE 0]) :
     st \in [1..n -> {"active", "completed"}], P \in SUBSET (1..n)}

\* The lists of at most len listings of the ids 1..n, active or in
\* progress, an id possibly more than once.
ListingLists(n, len) ==
  UNION {[1..m -> {ListingOf(id, status) : id \in 1..n,
                                           status \in {"active", "in-progress"}}] :
           m \in 0..len}

\* insertListings(listings) on every such table and list.
InsertListingsCalls(n, len) ==
  {[op |-> "insertListings", done |-> FALSE, ls |-> ls, newListings |-> newListings,
    result |-> [ls |-> <<>>, returned |-> <<>>, insertedCount |-> 0]] :
     ls \in UNION {ListingTables(m) : m \in 0..n},
     newListings \in ListingLists(n + 1, len)}

\* The module is loaded, nothing is running, the store is empty.
FnInit ==
  /\ isProcessing = FALSE
  /\ cyc = [i \in Slots |-> Off]
  /\ listings = <<>>
  /\ posted_listings = {}
  /\ messages = <<>>
  /\ remote = [id \in Ids |-> "none"]
  /\ pollOutcome = "none"
  /\ tickFlip = FALSE
  /\ cycles = 0
  /\ nullIds = {}
  /\ \/ call \in GetNewListingsCalls(Ids)
     \/ call \in CreateListingBatchesCalls
     \/ call \in TransformApiListingCalls
     \/ call \in GetSellListingsCalls
     \/ call \in LoadConfigCalls(MaxChars)
     \/ call \in GetAllListingsCalls(MaxFetched)
     \/ call \in CheckStatusChangesCalls(MaxTracked)
     \/ call \in InsertListingsCalls(MaxTracked, MaxInserted)
     \/ call \in ParseButtonCustomIdCalls(MaxParts)
  /\ proc = Started

CallGetNewListings ==
  /\ call.op = "getNewListings" /\ ~call.done
  /\ call' = [call EXCEPT !.done = TRUE,
                          !.result = getNewListings(call.fetchedListings,
                                                    call.existingListingIds)]
  /\ UNCHANGED <<proc, isProcessing, cyc, listings, posted_listings, messages, remote,
                 pollOutcome, tickFlip, cycles, nullIds>>

CallCreateListingBatches ==
  /\ call.op = "createListingBatches" /\ ~call.done
  /\ call' = [call EXCEPT !.done = TRUE,
                          !.result = createListingBatches(call.listings)]
  /\ UNCHANGED <<proc, isProcessing, cyc, listings, posted_listings, messages, remote,
                 pollOutcome, tickFlip, cycles, nullIds>>

CallTransformApiListing ==
  /\ call.op = "transformApiListing" /\ ~call.done
  /\ call' = IF transformApiListingThrows(call.apiListing)
             THEN [call EXCEPT !.done = TRUE, !.threw = TRUE]
             ELSE [call EXCEPT !.done = TRUE,
                               !.result = {transformApiListing(call.apiListing)}]
  /\ UNCHANGED <<proc, isProcessing, cyc, listings, posted_listings, messages, remote,
                 pollOutcome, tickFlip, cycles, nullIds>>

\* axios.get resolves with the response; the records are transformed.
CallGetSellListings ==
  /\ call.op = "getSellListings" /\ ~call.done
  /\ LET r == TransformAll(call.data)
     IN call' = [call EXCEPT !.done = TRUE, !.threw = r.threw, !.result = r.listings]
  /\ UNCHANGED <<proc, isProcessing, cyc, listings, posted_listings, messages, remote,
                 pollOutcome, tickFlip, cycles, nullIds>>

CallLoadConfig ==
  /\ call.op = "loadConfig" /\ ~call.done
  /\ LET interval == pollIntervalOf(call.POLL_INTERVAL)
     IN call' = [call EXCEPT !.done = TRUE, !.interval = interval,
                             !.intervalSeconds = intervalSeconds(interval)]
  /\ UNCHANGED <<proc, isProcessing, cyc, listings, posted_listings, messages, remote,
                 pollOutcome, tickFlip, cycles, nullIds>>

\* Both sub-fetches resolve: the results are merged and sorted.
CallGetAllListings ==
  /\ call.op = "getAllListings" /\ ~call.done
  /\ call' = [call EXCEPT !.done = TRUE,
                          !.result = AllListingsOf(call.sellListings, call.buyListings)]
  /\ UNCHANGED <<proc, isProcessing, cyc, listings, posted_listings, messages, remote,
                 pollOutcome, tickFlip, cycles, nullIds>>

\* The loop of checkStatusChanges runs over the delivered listings.
CallCheckStatusChanges ==
  /\ call.op = "checkStatusChanges" /\ ~call.done
  /\ call' = [call EXCEPT !.done = TRUE,
                          !.result = StatusScan(call.ls, call.pl, call.fm)]
  /\ UNCHANGED <<proc, isProcessing, cyc, listings, posted_listings, messages, remote,
                 pollOutcome, tickFlip, cycles, nullIds>>

\* insertListings runs its loop; returned[k] is what the k-th insertListing
\* returned.
CallInsertListings ==
  /\ call.op = "insertListings" /\ ~call.done
  /\ call' = [call EXCEPT
       !.done = TRUE,
       !.result =
         [ls |-> insertListings(call.ls, call.newListings),
          returned |-> [k \in DOMAIN call.newListings |->
                          insertListingReturn(
                            insertListings(call.ls, SubSeq(call.newListings, 1, k - 1)),
                            call.newListings[k])],
          insertedCount |-> insertListingsReturn(call.ls, call.newListings)]]
  /\ UNCHANGED <<proc, isProcessing, cyc, listings, posted_listings, messages, remote,
                 pollOutcome, tickFlip, cycles, nullIds>>

CallParseButtonCustomId ==
  /\ call.op = "parseButtonCustomId" /\ ~call.done
  /\ call' = [call EXCEPT !.done = TRUE,
                          !.result = parseButtonCustomIdOf(call.customId)]
  /\ UNCHANGED <<proc, isProcessing, cyc, listings, posted_listings, messages, remote,
                 pollOutcome, tickFlip, cycles, nullIds>>

FnNext ==
  \/ CallGetNewListings
  \/ CallCreateListingBatches
  \/ CallTransformApiListing
  \/ CallGetSellListings
  \/ CallLoadConfig
  \/ CallGetAllListings
  \/ CallCheckStatusChanges
  \/ CallInsertListings
  \/ CallParseButtonCustomId

FnSpec == FnInit /\ [][FnNext]_vars

\* The indexes of F whose element has an id outside K.
KeptIndexes(F, K) == {k \in DOMAIN F : F[k].id \notin K}

\* The j-th smallest element of the set of numbers S.
NthOf(S, j) == CHOOSE k \in S : Cardinality({x \in S : x <= k}) = j

\* C13: getNewListings(F, K) returns exactly the elements of F whose id is
\* not in K, in F's relative order.
C13_GetNewListingsFilters ==
  (call.op = "getNewListings" /\ call.done) =>
    LET F == call.fetchedListings
        keep == KeptIndexes(F, call.existingListingIds)
    IN /\ Len(call.result) = Cardinality(keep)
       /\ \A j \in 1..Len(call.result) : call.result[j] = F[NthOf(keep, j)]

\* A call that dropped the middle one of three listings and kept the
\* other two, of different ids, in their order.
C13_Witness ==
  /\ call.op = "getNewListings" /\ call.done
  /\ Len(call.fetchedListings) = 3
  /\ call.fetchedListings[2].id \in call.existingListingIds
  /\ Len(call.result) = 2
  /\ call.result[1].id > call.result[2].id

RECURSIVE Concat(_)
\* The lists of a list of lists, one after the other.
Concat(ss) == IF ss = <<>> THEN <<>> ELSE Head(ss) \o Concat(Tail(ss))

\* C14: createListingBatches on N listings gives ceil(N/5) batches, all of
\* 5 listings except possibly the last, numbered 1, 2, ... in order, whose
\* contents one after the other are the input list.
C14_BatchesPartitionInput ==
  (call.op = "createListingBatches" /\ call.done) =>
    LET N == Len(call.listings)
        R == call.result
    IN /\ Len(R) * LISTINGS_PER_BATCH >= N
       /\ (Len(R) - 1) * LISTINGS_PER_BATCH < N
       /\ \A b \in DOMAIN R :
            /\ R[b].batch_number = b
            /\ b < Len(R) => Len(R[b].listings) = LISTINGS_PER_BATCH
            /\ Len(R[b].listings) \in 1..LISTINGS_PER_BATCH
       /\ Concat([b \in DOMAIN R |-> R[b].listings]) = call.listings

\* Eleven listings have been batched into three batches, the last of one
\* listing.
C14_Witness ==
  /\ call.op = "createListingBatches" /\ call.done
  /\ Len(call.listings) = 11
  /\ Len(call.result) = 3
  /\ Len(call.result[3].listings) = 1

\* C15 (as claimed): batch sequence numbers increase over the life of the
\* process: a batch sent later, in the same or a later cycle, has a larger
\* number than every batch sent before it.
C15_BatchNumbersIncrease ==
  \A r1, r2 \in posted_listings :
    r1.message_id < r2.message_id => r1.batch_number < r2.batch_number

(***************************************************************************)
(* The delivery records, with insertPostedListing and                      *)
(* getListingByMessageId called directly in any order.                     *)
(***************************************************************************)
\* Listings in the store: 1..MaxStoreIds (MaxStoreIds + 1 is in no table).
MaxStoreIds == 2
\* Message handles passed to the calls: 1..MaxHandles.
MaxHandles == 2
\* Batch positions passed to the calls: 1..MaxPositions.
MaxPositions == 2

\* The rows a caller can pass to insertPostedListing.
PostedListingArgs ==
  [listing_id : 1..(MaxStoreIds + 1), message_id : 1..MaxHandles,
   channel_id : {ChannelId}, batch_number : {1},
   batch_position : 1..MaxPositions]

\* stmt.run raises an error that insertPostedListing rethrows: the row
\* breaks the foreign key on listings(id) (foreign_keys = ON) and is no
\* primary key conflict.
insertPostedListingThrows(ls, pl, postedListing) ==
  /\ postedListing.listing_id \notin DOMAIN ls
  /\ ~\E r \in pl : r.listing_id = postedListing.listing_id

\* parseInt(text, 10): the set of the number read, empty for NaN.
parseInt(text) == {k \in DOMAIN PositionText : PositionText[k] = text}

\* customId.split(':') of the customIds a client can send back: those of
\* the buttons, stale or not, and malformed ones.
CustomIdParts ==
  {<<"buy", id, PositionText[pos]>> : id \in 1..MaxStoreIds, pos \in 1..MaxPositions}
  \cup {<<"sell", 1, PositionText[pos]>> : pos \in 1..MaxPositions}
  \cup {<<"buy", 1, "x">>, <<"buy", 1>>, <<"buy", 1, "1", "1">>}

\* The mutant of parseButtonCustomId: the action is not looked at.
parseButtonCustomIdAnyAction(parts) ==
  IF Len(parts) # 3 THEN {}
  ELSE {[action |-> "buy", listing_id |-> parts[2], batch_position |-> parseInt(parts[3])]}

\* The set of the ButtonData returned, empty for null.
parseButtonCustomId(parts) ==
  IF Len(parts) # 3 \/ parts[1] # "buy" THEN {}
  ELSE {[action |-> "buy", listing_id |-> parts[2], batch_position |-> parseInt(parts[3])]}

\* getListingByMessageId(interaction.message.id, buttonData.batch_position):
\* NaN is bound as NULL, and batch_position = NULL is true of no row.
LookupButton(ls, pl, messageId, buttonData) ==
  UNION {getListingByMessageId(ls, pl, messageId, pos) : pos \in buttonData.batch_position}

\* await interaction.reply(kind): when it rejects, the catch block of
\* handleButtonInteraction replies with an error message inside its own
\* try/catch, so the handler resolves either way.
Replies(kind, replyOk) == IF replyOk THEN <<kind>> ELSE <<kind, "error">>

\* The store holds the listings 1..MaxStoreIds and no delivery record.
StoreInit ==
  /\ isProcessing = FALSE
  /\ cyc = [i \in Slots |-> Off]
  /\ listings = insertListings(<<>>, [k \in 1..MaxStoreIds |-> ListingOf(k, "active")])
  /\ posted_listings = {}
  /\ messages = <<>>
  /\ remote = [id \in Ids |-> "none"]
  /\ pollOutcome = "none"
  /\ tickFlip = FALSE
  /\ cycles = 0
  /\ nullIds = {}
  /\ call = NoCall
  /\ proc = Started

CallInsertPostedListing ==
  \E postedListing \in PostedListingArgs :
    /\ IF insertPostedListingThrows(listings, posted_listings, postedListing)
       THEN /\ UNCHANGED posted_listings
            /\ call' = [op |-> "insertPostedListing", postedListing |-> postedListing,
                        threw |-> TRUE]
       ELSE /\ posted_listings' = insertPostedListing(posted_listings, postedListing)
            /\ call' = [op |-> "insertPostedListing", postedListing |-> postedListing,
                        threw |-> FALSE]
    /\ UNCHANGED <<proc, isProcessing, cyc, listings, messages, remote, pollOutcome,
                   tickFlip, cycles, nullIds>>

\* .get() returns one of the rows the query matches, or undefined (null is
\* returned): result is the set of the at most one listing returned.
CallGetListingByMessageId ==
  \E messageId \in 1..MaxHandles, batchPosition \in 1..MaxPositions :
    LET found == getListingByMessageId(listings, posted_listings,
                                       messageId, batchPosition)
    IN /\ \E result \in (IF found = {} THEN {{}} ELSE {{l} : l \in found}) :
            call' = [op |-> "getListingByMessageId", messageId |-> messageId,
                     batchPosition |-> batchPosition, result |-> result]
       /\ UNCHANGED <<proc, isProcessing, cyc, listings, posted_listings, messages,
                      remote, pollOutcome, tickFlip, cycles, nullIds>>

\* A button interaction arrives: handleButtonInteraction runs to its end.
\* events are the listings of the purchase events emitted, replies the
\* kinds of the replies requested, in order.
CallHandleButtonInteraction ==
  \E messageId \in 1..MaxHandles, parts \in CustomIdParts, replyOk \in BOOLEAN :
    \E parsed \in {parseButtonCustomId(parts)} :
    \E found \in {UNION {LookupButton(listings, posted_listings, messageId, b) :
                            b \in parsed}} :
    LET base == [op |-> "handleButtonInteraction", messageId |-> messageId,
                 parts |-> parts, outcome |-> "resolved"]
    IN /\ IF parsed = {} \/ found = {}
          THEN call' = base @@ [events |-> <<>>,
                                replies |-> Replies("error", replyOk)]
          ELSE \E listing \in found :
                 call' = base @@ [events |-> <<listing>>,
                                  replies |-> Replies("confirmation", replyOk)]
       /\ UNCHANGED <<proc, isProcessing, cyc, listings, posted_listings, messages,
                      remote, pollOutcome, tickFlip, cycles, nullIds>>

StoreNext ==
  \/ CallInsertPostedListing
  \/ CallGetListingByMessageId
  \/ CallHandleButtonInteraction

StoreSpec == StoreInit /\ [][StoreNext]_vars

\* The delivery records of the pair (messageId, batchPosition).
RecordsAt(messageId, batchPosition) ==
  {r \in posted_listings :
     r.message_id = messageId /\ r.batch_position = batchPosition}

C17_RecordIsInsertIfAbsent ==
  [][\A r \in posted_listings :
       /\ r \in posted_listings'
       /\ (call'.op = "insertPostedListing"
           /\ call'.postedListing.listing_id = r.listing_id) =>
            (~call'.threw /\ posted_listings' = posted_listings)]_vars

\* insertPostedListing has returned for listing 1 with message 2, and the
\* record of listing 1 still names message 1.
C17_Witness ==
  /\ call.op = "insertPostedListing"
  /\ ~call.threw
  /\ call.postedListing.listing_id = 1
  /\ call.postedListing.message_id = 2
  /\ \E r \in posted_listings : r.listing_id = 1 /\ r.message_id = 1

\* The customId is no reference to a position: it is not of the form
\* buy:<id>:<number>.
Unparsable(parts) ==
  \/ Len(parts) # 3
  \/ parts[1] # "buy"
  \/ \A k \in DOMAIN PositionText : PositionText[k] # parts[3]

FetchedStatus(i, id) == fetchedListingsMap(cyc[i].fetched)[id].status

\* C19: when the edit of a message is requested the store already has the
\* fetched status of every listing the request names, and an edit that goes
\* through shows each of them with that status.
C19_StatusWrittenBeforeEdit ==
  [][\A i \in Slots :
       /\ \A k \in DOMAIN cyc'[i].requests :
            \A id \in Range(cyc'[i].requests[k].listingIds) :
              /\ id \in DOMAIN listings'
              /\ listings'[id].status = fetchedListingsMap(cyc'[i].fetched)[id].status
       /\ (cyc[i].pc = "edit" /\ messages' # messages) =>
            LET m == cyc[i].groups[1].message_id
            IN \A k \in DOMAIN messages'[m].embed :
                 messages'[m].embed[k].status =
                   FetchedStatus(i, messages'[m].embed[k].id)]_vars

\* An edit has gone through: the message shows a changed listing as
\* in-progress, the status the store holds for it.
C19_Witness ==
  \E i \in Slots :
    /\ cyc[i].pc = "editDelay"
    /\ LET m == cyc[i].requests[Len(cyc[i].requests)].message_id
       IN \E k \in DOMAIN messages[m].embed :
            /\ messages[m].embed[k].id \in cyc[i].changed
            /\ messages[m].embed[k].status = "in-progress"
            /\ listings[messages[m].embed[k].id].status = "in-progress"

\* Invocation i is past new-listing detection: it is posting the batches.
Posting(i) == cyc[i].pc \in {"send", "sendDelay"}

\* C20: new-listing detection begins straight after the fetch only when
\* the scan found nothing changed, and otherwise after the pause that
\* follows the last edit: no edit is in flight, every message with a
\* changed listing has had its edit requested and every changed status is
\* in the store; from then on the cycle requests no edit and writes no
\* status.
C20_ScanCompleteBeforeDetection ==
  [][\A i \in Slots :
       /\ (~Posting(i) /\ cyc'[i].pc \in {"send", "sendDelay"}) =>
            /\ cyc[i].pc \in {"fetch", "editDelay"}
            /\ cyc[i].pc = "fetch" => cyc'[i].requests = <<>>
            /\ {cyc'[i].requests[k].message_id : k \in DOMAIN cyc'[i].requests} =
                 {r.message_id : r \in {x \in posted_listings' :
                                          x.listing_id \in cyc'[i].changed}}
            /\ \A id \in cyc'[i].changed :
                 listings'[id].status = fetchedListingsMap(cyc'[i].fetched)[id].status
       /\ Posting(i) =>
            /\ cyc'[i].pc = "off" \/ cyc'[i].requests = cyc[i].requests
            /\ \A id \in DOMAIN listings : listings'[id].status = listings[id].status]_vars

\* The scan has written two changed statuses and requested the edit of
\* their message, and the cycle is now sending a batch of new listings.
C20_Witness ==
  \E i \in Slots :
    /\ cyc[i].pc = "send"
    /\ Len(cyc[i].requests) = 1
    /\ Cardinality(cyc[i].changed) = 2
    /\ \A id \in cyc[i].changed : listings[id].status = "in-progress"

\* The batch numbers of the batches invocation i has not yet dealt with.
PendingNumbers(i) == [b \in DOMAIN cyc[i].batches |-> cyc[i].batches[b].batch_number]

\* C21: at most one send is in flight at any time and the batches a cycle
\* has still to send are numbered upwards in steps of one; the send of a
\* batch starts only when detection ends (the first batch), when the send
\* of the batch before it has resolved, with a message or without, or when
\* the pause after that send is over.
C21_SendsInSequence ==
  [][/\ Cardinality({i \in Slots : cyc'[i].pc = "send"}) <= 1
     /\ \A i \in Slots :
          /\ \A b \in DOMAIN cyc'[i].batches :
               b > 1 => cyc'[i].batches[b].batch_number =
                          cyc'[i].batches[b - 1].batch_number + 1
          /\ (cyc'[i].pc = "send" /\ (cyc'[i] # cyc[i] \/ nullIds' # nullIds)) =>
               \/ /\ cyc[i].pc \in {"fetch", "editDelay"}
                  /\ cyc'[i].batches[1].batch_number = 1
               \/ /\ cyc[i].pc = "send"
                  /\ cyc'[i].batches[1].batch_number =
                       cyc[i].batches[1].batch_number + 1
               \/ /\ cyc[i].pc = "sendDelay"
                  /\ cyc'[i].batches = cyc[i].batches
          /\ (cyc[i].pc = "send" /\ cyc'[i].pc = "sendDelay") =>
               cyc'[i].batches = Tail(cyc[i].batches)]_vars

\* The send of batch 1 came back without a message and the send of batch 2
\* is in flight.
C21_Witness ==
  \E i \in Slots :
    /\ cyc[i].pc = "send"
    /\ cyc[i].successCount = 0
    /\ PendingNumbers(i) = <<2>>
    /\ nullIds # {}

\* C22 (as claimed): between two consecutive sends of a cycle the pause
\* takes place whatever the outcome of the earlier send: the send of the
\* next batch never starts in the step in which a send resolves.
C22_PauseBetweenSends ==
  [][\A i \in Slots :
       (cyc[i].pc = "send" /\ (cyc'[i] # cyc[i] \/ nullIds' # nullIds)) =>
         cyc'[i].pc # "send"]_vars

\* The raw records of a response on which transformApiListing does not
\* throw, in their order.
WellFormed(data) == SelectSeq(data, LAMBDA a : ~transformApiListingThrows(a))

\* C23 (as claimed): a raw record with a null price and no wanted item is
\* skipped alone: getSellListings does not fail and returns the Listings of
\* the other records of the response, in their order.
C23_MalformedRecordSkippedAlone ==
  (call.op = "getSellListings" /\ call.done) =>
    LET good == WellFormed(call.data)
    IN /\ ~call.threw
       /\ call.result = [k \in DOMAIN good |-> transformApiListing(good[k])]

\* The Listing a finished call of transformApiListing returned.
Returned == CHOOSE l \in call.result : TRUE

\* The side of the returned Listing that is not the traded item.
ReturnedCounterSide ==
  IF call.apiListing.listing_type = "sell" THEN Returned.buying ELSE Returned.selling

\* The side of the returned Listing that is the traded item.
ReturnedItemSide ==
  IF call.apiListing.listing_type = "sell" THEN Returned.selling ELSE Returned.buying

C25_BarterSideVerbatim ==
  (call.op = "transformApiListing" /\ call.done
     /\ call.apiListing.price = {} /\ call.apiListing.wanted_item # {}) =>
    LET a == call.apiListing
        w == CHOOSE x \in a.wanted_item : TRUE
    IN /\ ~call.threw
       /\ ReturnedCounterSide =
            [id |-> a.wanted_item_id, amount |-> a.wanted_quantity,
             name |-> {w.name}, icon |-> {w.icon}, rarity |-> w.rarity]
       /\ ReturnedItemSide =
            [id |-> {a.item_id}, amount |-> {a.quantity}, name |-> {a.item.name},
             icon |-> {a.item.icon}, rarity |-> a.item.rarity]

\* A buy record with a null price and a rare wanted item has been
\* transformed: the Listing sells 2 of the wanted item, rarity included.
C25_Witness ==
  /\ call.op = "transformApiListing" /\ call.done /\ ~call.threw
  /\ call.apiListing.listing_type = "buy"
  /\ call.apiListing.price = {}
  /\ Returned.selling.id = {"wires"}
  /\ Returned.selling.amount = {2}
  /\ Returned.selling.rarity = {"rare"}
  /\ Returned.buying.id = {"iron-scrap"}

\* C26 (as claimed): whatever POLL_INTERVAL holds, the interval of the
\* configuration the scheduler is started with is a number of at least
\* 1000 ms: a setting that is no number or is below 1000 gives 5000.
C26_IntervalAtLeastMinimum ==
  (call.op = "loadConfig" /\ call.done) =>
    LET text == IF call.POLL_INTERVAL = {} THEN <<>>
                ELSE CHOOSE t \in call.POLL_INTERVAL : TRUE
        parsed == parseIntOf(text)
    IN /\ call.interval # {}
       /\ \A n \in call.interval : n >= 1000
       /\ (parsed = {} \/ \E n \in parsed : n < 1000) => call.interval = {5000}

\* C27: shutdown stops the scheduler, disconnects the transport, closes the
\* store and exits with code 0, in this order, and once the transport or
\* the store has been released no step of a cycle runs: the cycle in
\* flight changes neither its position, the store nor the channel.
C27_ShutdownOrderNoWriteAfterClose ==
  [][/\ proc'.exitCode # {} =>
          /\ proc'.log = <<"stopPolling", "disconnectDiscordBot", "closeDatabase", "exit">>
          /\ proc'.exitCode = {0}
          /\ proc'.pollingJob = "null" /\ proc'.discordClient = "null"
          /\ proc'.db = "null"
     /\ (proc.db = "null" \/ proc.discordClient = "null") =>
          UNCHANGED <<isProcessing, cyc, listings, posted_listings, messages>>]_vars

\* The process has exited on a signal while a cycle was awaiting the send
\* of a batch whose listings are in the store, not yet delivered.
C27_Witness ==
  /\ proc.exitCode = {0}
  /\ isProcessing
  /\ \E i \in Slots :
       /\ cyc[i].pc = "send"
       /\ \A id \in PendingIds(i) :
            id \in DOMAIN listings /\ listings[id].posted_to_discord = 0

\* C28 (as claimed): a listener that throws does not abort the cycle: the
\* step that inserts the new listings leaves the invocation at the send of
\* its first batch, and the step in which a batch is sent goes on to the
\* pause, to the next send or to the regular end of the cycle.
C28_ObserverFailureIsIsolated ==
  [][\A i \in Slots :
       /\ (cyc[i].pc \in {"fetch", "editDelay"} /\ DOMAIN listings' # DOMAIN listings) =>
            cyc'[i].pc = "send"
       /\ (cyc[i].pc = "send" /\ messages' # messages) =>
            \/ cyc'[i].pc \in {"send", "sendDelay"}
            \/ cyc'[i].pc = "off" /\ pollOutcome' = "completed"]_vars

\* C29: a cycle never works on a partial list: every step taken from the
\* awaited fetch either leaves the cycle with the listings, the delivery
\* records and the messages as they were (a sub-fetch failed, or nothing
\* was new or changed), or goes on with all the listings of both
\* sub-fetches.
C29_FailedFetchAbortsCleanly ==
  [][\A i \in Slots :
       (cyc[i].pc = "fetch" /\ cyc'[i] # cyc[i]) =>
         \/ /\ cyc'[i].pc = "off"
            /\ UNCHANGED <<listings, posted_listings, messages>>
         \/ /\ cyc'[i].pc \in {"edit", "send"}
            /\ pollOutcome' = pollOutcome
            /\ {cyc'[i].fetched[k].id : k \in DOMAIN cyc'[i].fetched} =
                 {id \in Ids : remote[id] # "none"}]_vars

\* The fetch of the first cycle failed while the remote source listed a
\* sell and a buy offer: the cycle is over, rejected or caught, and the
\* store and the channel are empty.
C29_Witness ==
  /\ cycles = 1
  /\ ~isProcessing
  /\ pollOutcome \in {"rejected", "caught"}
  /\ remote[1] # "none" /\ remote[2] # "none"
  /\ listings = <<>> /\ posted_listings = {} /\ messages = <<>>

\* The place of the listing with the given id in the list s.
IndexOfId(s, id) == CHOOSE k \in DOMAIN s : s[k].id = id

\* C30: getAllListings returns the sell results followed by the buy
\* results rearranged: each listing once, created_at never increasing
\* along the list, and listings of equal created_at in the order they have
\* in the sell results followed by the buy results.
C30_MergedNewestFirstStable ==
  (call.op = "getAllListings" /\ call.done) =>
    LET all == call.sellListings \o call.buyListings
        R == call.result
    IN /\ Len(R) = Len(all)
       /\ Range(R) = Range(all)
       /\ \A j, k \in DOMAIN R :
            j < k =>
              /\ R[j].created_at >= R[k].created_at
              /\ R[j].created_at = R[k].created_at =>
                   IndexOfId(all, R[j].id) < IndexOfId(all, R[k].id)

\* Two sell and two buy listings have been merged: the newest is a buy
\* listing and comes first, and a sell and a buy listing of equal time
\* come last, in this order.
C30_Witness ==
  /\ call.op = "getAllListings" /\ call.done
  /\ Len(call.sellListings) = 2 /\ Len(call.buyListings) = 2
  /\ call.result[1].type = "buy"
  /\ call.result[1].created_at > call.result[2].created_at
  /\ call.result[3].type = "sell" /\ call.result[4].type = "buy"
  /\ call.result[3].created_at = call.result[4].created_at

(***************************************************************************)
(* The program run for one more cycle.                                     *)
(***************************************************************************)
\* The cron job fires when MaxCycles cycles have been started and none is
\* running: one more cycle starts.
LaterTick ==
  /\ ~ShouldSkip(isProcessing)
  /\ cycles = MaxCycles
  /\ tickFlip' = ~tickFlip
  /\ cycles' = cycles + 1
  /\ \E i \in Slots :
       /\ cyc[i].pc = "off"
       /\ \A j \in Slots : j < i => cyc[j].pc # "off"
       /\ cyc' = [cyc EXCEPT ![i] = Entered]
  /\ isProcessing' = TRUE
  /\ UNCHANGED <<listings, posted_listings, messages, remote, pollOutcome,
                 nullIds, call, proc>>

RetryNext ==
  \/ Next
  \/ LaterTick

\* The program over MaxCycles + 1 cycles.
RetrySpec == Init /\ [][RetryNext]_vars

\* Message m shows a listing with a status other than the persisted one,
\* and the remote status of that listing is the persisted one.
Stale(m) ==
  \E k \in DOMAIN messages[m].embed :
    LET e == messages[m].embed[k]
    IN /\ e.id \in DOMAIN listings
       /\ e.status # listings[e.id].status
       /\ remote[e.id] = listings[e.id].status

\* The status scan of invocation i returns in this step: the cycle goes on
\* to send its first batch or ends on the fast path.
ScanReturns(i) ==
  /\ cyc[i].pc \in {"fetch", "editDelay"}
  /\ \/ cyc'[i].pc = "send"
     \/ cyc'[i].pc = "off" /\ pollOutcome' = "completed"

\* C31 (as claimed): a message whose edit failed is edited again by a later
\* cycle while the remote status is unchanged: when the status scan of a
\* cycle returns, the scan has requested the edit of every message that
\* still shows a status other than the persisted one.
C31_FailedEditIsRetried ==
  [][\A i \in Slots :
       ScanReturns(i) =>
         \A m \in DOMAIN messages :
           Stale(m) => \E k \in DOMAIN cyc[i].requests :
                         cyc[i].requests[k].message_id = m]_vars

\* The ids the fetch of invocation i returned, or returns if it resolves
\* in the coming step.
FetchedIds(i) ==
  IF cyc[i].pc = "fetch" THEN {id \in Ids : remote[id] # "none"}
  ELSE {cyc[i].fetched[k].id : k \in DOMAIN cyc[i].fetched}

\* Invocation i is at its last suspension point before new-listing
\* detection: the awaited fetch, or the pause after the last edit.
BeforeDetection(i) ==
  \/ cyc[i].pc = "fetch"
  \/ cyc[i].pc = "editDelay" /\ Len(cyc[i].groups) = 1

\* C32: when no fetched listing is new the cycle ends right after the
\* status scan: from the resolved fetch it goes to the first edit of the
\* scan or ends, from the pause after the last edit it ends; it ends as a
\* completed poll (through the catch block only if the fetch failed), no
\* row is inserted, no batch is created, nothing is sent or recorded.
C32_NothingNewEndsCycle ==
  [][\A i \in Slots :
       (BeforeDetection(i) /\ cyc'[i] # cyc[i] /\ FetchedIds(i) \subseteq DOMAIN listings) =>
         /\ DOMAIN listings' = DOMAIN listings
         /\ UNCHANGED <<posted_listings, messages, nullIds>>
         /\ cyc'[i].batches = <<>>
         /\ \/ cyc[i].pc = "fetch" /\ cyc'[i].pc = "edit" /\ pollOutcome' = pollOutcome
            \/ cyc[i].pc = "fetch" /\ cyc'[i].pc = "off" /\ listings' = listings
               /\ pollOutcome' \in {"completed", CatchOutcome}
            \/ cyc[i].pc = "editDelay" /\ cyc'[i].pc = "off" /\ listings' = listings
               /\ pollOutcome' = "completed"]_vars

\* The second cycle fetched nothing new, found the status of a delivered
\* listing changed, had the one message edited and ended as a completed
\* poll with one message in the channel.
C32_Witness ==
  /\ cycles = 2
  /\ ~isProcessing
  /\ pollOutcome = "completed"
  /\ Len(messages) = 1
  /\ nullIds = {}
  /\ \E k \in DOMAIN messages[1].embed :
       /\ messages[1].embed[k].status = "in-progress"
       /\ listings[messages[1].embed[k].id].type = TypeOf(messages[1].embed[k].id)

\* The listing ids of the group of message m in the result of a scan (none
\* when the message has no group).
GroupIds(groups, m) ==
  UNION {{groups[g].listings[k].id : k \in DOMAIN groups[g].listings} :
           g \in {x \in DOMAIN groups : groups[x].message_id = m}}

\* C33: a delivered listing that is absent from the fetch is left untouched
\* by the status scan: its row (status and updated_at included) is as it
\* was, it is not counted as changed and it is in no group of listings to
\* edit; a message gets a group only for listings that the fetch holds with
\* a status other than the persisted one.
C33_AbsentTrackedUntouched ==
  (call.op = "checkStatusChanges" /\ call.done) =>
    /\ \A id \in DOMAIN call.ls :
         id \notin DOMAIN call.fm =>
           /\ call.result.ls[id] = call.ls[id]
           /\ id \notin call.result.changed
           /\ \A r \in call.pl : id \notin GroupIds(call.result.groups, r.message_id)
    /\ \A g \in DOMAIN call.result.groups :
         /\ call.result.groups[g].listings # <<>>
         /\ \A k \in DOMAIN call.result.groups[g].listings :
              LET id == call.result.groups[g].listings[k].id
              IN id \in DOMAIN call.fm /\ call.fm[id].status # call.ls[id].status

\* A scan has run in which listing 1 was absent from the fetch while
\* listing 2 of the same message had changed: listing 2 is written and put
\* up for the edit of the message, listing 1 is as it was.
C33_Witness ==
  /\ call.op = "checkStatusChanges" /\ call.done
  /\ DOMAIN call.ls = {1, 2}
  /\ DOMAIN call.fm = {2, 3}
  /\ \A r \in call.pl : r.message_id = 1
  /\ call.result.changed = {2}
  /\ call.result.ls[2].status = "in-progress"
  /\ call.result.ls[1] = call.ls[1]
  /\ GroupIds(call.result.groups, 1) = {2}

\* The columns of a row that describe the offer itself.
Terms(row) ==
  [type |-> row.type, selling_id |-> row.selling_id, selling_name |-> row.selling_name,
   selling_icon |-> row.selling_icon, selling_amount |-> row.selling_amount,
   buying_id |-> row.buying_id, buying_name |-> row.buying_name,
   buying_icon |-> row.buying_icon, buying_amount |-> row.buying_amount,
   created_at |-> row.created_at]

\* C34: once a listing id is persisted, no step of the program changes its
\* type, its selling and buying columns or its created_at, whatever the
\* remote source returns for the id later; the row stays in the store.
C34_TermsNeverChange ==
  [][\A id \in DOMAIN listings :
       /\ id \in DOMAIN listings'
       /\ Terms(listings'[id]) = Terms(listings[id])]_vars

\* The scan has written the new status and updated_at of a listing whose
\* remote record now differs in type, amounts and created_at; the row keeps
\* the terms it was created with.
C34_Witness ==
  \E id \in DOMAIN listings :
    /\ remote[id] \notin {"none", "active"}
    /\ listings[id].status = remote[id]
    /\ listings[id].updated_at = ApiListingOf(id).updated_at
    /\ Terms(listings[id]) = Terms(listingToDbListing(ListingOf(id, "active")))
    /\ Terms(listings[id]) # Terms(listingToDbListing(transformApiListing(ApiListingOf(id))))
    /\ listings[id].type # ApiListingOf(id).listing_type
    /\ listings[id].created_at # ApiListingOf(id).created_at

\* C35: insertListing for an id that is already in the table returns false
\* and leaves the row as it was, status and delivered flag included;
\* insertListings returns the number of rows the table gained, which is the
\* number of its insertListing calls that returned true.
C35_DuplicateInsertSwallowed ==
  (call.op = "insertListings" /\ call.done) =>
    /\ \A id \in DOMAIN call.ls :
         id \in DOMAIN call.result.ls /\ call.result.ls[id] = call.ls[id]
    /\ \A k \in DOMAIN call.newListings :
         (\/ call.newListings[k].id \in DOMAIN call.ls
          \/ \E j \in 1..(k - 1) : call.newListings[j].id = call.newListings[k].id)
           <=> ~call.result.returned[k]
    /\ call.result.insertedCount
         = Cardinality(DOMAIN call.result.ls) - Cardinality(DOMAIN call.ls)
    /\ call.result.insertedCount
         = Cardinality({k \in DOMAIN call.newListings : call.result.returned[k]})

\* insertListings has been given listing 1, which the table holds as a
\* delivered and completed listing, and a listing that is new: the first
\* call returned false, the second true, the count is 1 and the row of
\* listing 1 is as it was.
C35_Witness ==
  /\ call.op = "insertListings" /\ call.done
  /\ Len(call.newListings) = 2
  /\ call.newListings[1].id = 1 /\ call.newListings[1].status = "in-progress"
  /\ 1 \in DOMAIN call.ls
  /\ call.ls[1].status = "completed" /\ call.ls[1].posted_to_discord = 1
  /\ call.newListings[2].id \notin DOMAIN call.ls
  /\ call.result.returned = <<FALSE, TRUE>>
  /\ call.result.insertedCount = 1
  /\ call.result.ls[1] = call.ls[1]
  /\ call.newListings[2].id \in DOMAIN call.result.ls

\* The posted_listings rows of message m.
MessageRecords(pl, m) == {r \in pl : r.message_id = m}

\* C36: after every step of the program the records that share a message
\* have pairwise distinct positions, each in 1..LISTINGS_PER_BATCH, and a
\* message that exists before the step has the same records after it: all
\* records of a message are written in the step that sends it.
C36_PositionsUniquePerMessage ==
  [][/\ \A r1, r2 \in posted_listings' :
          /\ r1.batch_position \in 1..LISTINGS_PER_BATCH
          /\ (r1.message_id = r2.message_id /\ r1.batch_position = r2.batch_position)
               => r1 = r2
     /\ \A m \in DOMAIN messages :
          MessageRecords(posted_listings', m) = MessageRecords(posted_listings, m)]_vars

\* The last cycle runs after a message with a full batch of five records and
\* a second message of the same delivery were sent.
C36_Witness ==
  /\ cycles = MaxCycles
  /\ Len(messages) >= 2
  /\ {r.batch_position : r \in MessageRecords(posted_listings, 1)} = 1..LISTINGS_PER_BATCH
  /\ Cardinality(MessageRecords(posted_listings, 1)) = LISTINGS_PER_BATCH
  /\ MessageRecords(posted_listings, 2) # {}
  /\ \E i \in Slots : cyc[i].pc = "fetch"

(***************************************************************************)
(* The program with a store whose writes can fail.                         *)
(***************************************************************************)
\* postBatchToDiscord: the message is sent, the first written records of
\* the batch are inserted and the next store write raises an error that is
\* no key conflict (insertPostedListing rethrows it; for written =
\* Len(batch.listings) it is the UPDATE of markListingsAsPosted that
\* raises). The catch block calls emitError and returns null if that
\* returns.
SendOkStoreThrows(i) ==
  /\ cyc[i].pc = "send"
  /\ LET batch == cyc[i].batches[1]
         messageId == Len(messages) + 1
         r == IF emitErrorThrows
              THEN [c |-> cyc[i], out |-> CatchOutcome]
              ELSE AfterNull(cyc[i])
     IN \E written \in 0..Len(batch.listings) :
          /\ messages' = Append(messages, SentMessage(batch, ChannelId))
          /\ posted_listings' =
               RecordLoop(posted_listings,
                          [batch EXCEPT !.listings = SubSeq(@, 1, written)],
                          0, messageId, ChannelId)
          /\ Settle(i, r.c, r.out)
  /\ UNCHANGED <<listings, remote, tickFlip, cycles, nullIds>>
  /\ UNCHANGED <<call, proc>>

\* A step of a cycle in which a store write fails.
StoreThrows == \E i \in Slots : SendOkStoreThrows(i)

FailingStoreNext ==
  \/ Next
  \/ StoreThrows

FailingStoreSpec == Init /\ [][FailingStoreNext]_vars

\* C37: whenever no cycle is running, a listing has the delivered flag if
\* and only if a DeliveryRecord exists for it, also after a store write
\* failed in the middle of the records of a batch.
C37_FlagIffRecordWhenIdle ==
  ~isProcessing =>
    \A id \in DOMAIN listings :
      listings[id].posted_to_discord = 1 <=> RecordsOf(id) # {}

(***************************************************************************)
(* The program with button interactions arriving while a cycle runs.       *)
(***************************************************************************)
\* channel.send(...) is awaited: the transport accepts the message, which
\* from then on is shown with its buttons, while the cycle is suspended
\* until the promise resolves.
SendAccepted(i) ==
  /\ cyc[i].pc = "send"
  /\ messages' = Append(messages, SentMessage(cyc[i].batches[1], ChannelId))
  /\ cyc' = [cyc EXCEPT ![i].pc = "sendAwait"]
  /\ UNCHANGED <<isProcessing, listings, posted_listings, remote, pollOutcome,
                 tickFlip, cycles, nullIds>>
  /\ UNCHANGED <<call, proc>>

\* The promise of the send resolves with the message: postBatchToDiscord
\* goes on to record its listings and mark them as posted.
SendResolved(i) ==
  /\ cyc[i].pc = "sendAwait"
  /\ LET batch == cyc[i].batches[1]
         messageId == Len(messages)
         listingIds == [k \in DOMAIN batch.listings |-> batch.listings[k].id]
         r == AfterSent(cyc[i])
     IN /\ posted_listings' = RecordLoop(posted_listings, batch, 0, messageId, ChannelId)
        /\ listings' = markListingsAsPosted(listings, listingIds)
        /\ Settle(i, r.c, r.out)
  /\ UNCHANGED <<messages, remote, tickFlip, cycles, nullIds>>
  /\ UNCHANGED <<call, proc>>

\* customId.split(':') of the customId of a button.
ButtonParts(button) ==
  <<button.action, button.listing_id, PositionText[button.batch_position]>>

\* A user clicks a button of a message that is shown: the interaction
\* arrives and handleButtonInteraction runs to its end.
ClickButton ==
  \E messageId \in DOMAIN messages, replyOk \in BOOLEAN :
    \E k \in DOMAIN messages[messageId].components :
    \E parts \in {ButtonParts(messages[messageId].components[k])} :
    \E parsed \in {parseButtonCustomId(parts)} :
    \E found \in {UNION {LookupButton(listings, posted_listings, messageId, b) :
                            b \in parsed}} :
    LET base == [op |-> "handleButtonInteraction", messageId |-> messageId,
                 parts |-> parts, outcome |-> "resolved"]
    IN /\ IF parsed = {} \/ found = {}
          THEN call' = base @@ [events |-> <<>>,
                                replies |-> Replies("error", replyOk)]
          ELSE \E listing \in found :
                 call' = base @@ [events |-> <<listing>>,
                                  replies |-> Replies("confirmation", replyOk)]
       /\ UNCHANGED <<proc, isProcessing, cyc, listings, posted_listings, messages,
                      remote, pollOutcome, tickFlip, cycles, nullIds>>

\* A step of the awaited send.
AwaitedSend == \E i \in Slots : SendAccepted(i) \/ SendResolved(i)

InteractionNext ==
  \/ Next
  \/ AwaitedSend
  \/ ClickButton

InteractionSpec == Init /\ [][InteractionNext]_vars

\* C38: every button of every message the transport has accepted has its
\* DeliveryRecord, and a button interaction on such a message resolves to
\* the listing shown at the position of the button: a purchase event for
\* that listing and a confirmation.
C38_ClickResolvesToListing ==
  /\ \A m \in DOMAIN messages : \A k \in DOMAIN messages[m].components :
       \E r \in posted_listings :
         /\ r.message_id = m /\ r.batch_position = k
         /\ r.listing_id = messages[m].components[k].listing_id
  /\ call.op = "handleButtonInteraction" =>
       /\ Len(call.events) = 1
       /\ call.events[1].id = call.parts[2]
       /\ Head(call.replies) = "confirmation"

(***************************************************************************)
(* The program with a status scan that can throw.                          *)
(***************************************************************************)
\* The mutant of ScanCaught: the error leaves checkStatusChanges and
\* reaches the catch block of pollListings.
ScanRethrows(c, ls) == [c |-> c, ls |-> ls, out |-> CatchOutcome]

\* catch (error) { logger.error(...) } of checkStatusChanges: the function
\* resolves and pollListings goes on with step 3.
ScanCaught(c, ls) == DetectNew([c EXCEPT !.groups = <<>>], ls)

\* The numbers n of delivered listings the loop can deal with before a
\* store call of the scan throws: 0 (getPostedListings itself throws, or
\* the first write does), or n when listing n + 1 has changed and
\* updateListingStatus throws for it.
ThrowPoints(postedListings, fm) ==
  {0} \cup {n \in 1..(Len(postedListings) - 1) :
              LET listing == postedListings[n + 1].listing
              IN listing.id \in DOMAIN fm /\ fm[listing.id].status # listing.status}

\* getAllListings resolves and a store call of the scan throws after n
\* delivered listings were dealt with: the statuses written so far stay,
\* no edit is requested.
FetchResolveScanThrows(i) ==
  /\ cyc[i].pc = "fetch"
  /\ \E fetchedListings \in {getAllListings} :
     \E postedListings \in {getPostedListings(listings, posted_listings)} :
     \E fm \in {fetchedListingsMap(fetchedListings)} :
     \E n \in ThrowPoints(postedListings, fm) :
     \E r \in {ScanCaught([cyc[i] EXCEPT !.fetched = fetchedListings],
                          ScanLoop(SubSeq(postedListings, 1, n), 1, fm,
                                   [ls |-> listings, groups |-> <<>>,
                                    changed |-> {}]).ls)} :
       /\ listings' = r.ls
       /\ Settle(i, r.c, r.out)
  /\ UNCHANGED <<posted_listings, messages, remote, tickFlip, cycles, nullIds>>
  /\ UNCHANGED <<call, proc>>

\* An error leaves the awaited updateMessageWithStatus: the messages still
\* to edit are given up.
EditThrows(i) ==
  /\ cyc[i].pc = "edit"
  /\ \E r \in {ScanCaught(cyc[i], listings)} :
       /\ listings' = r.ls
       /\ Settle(i, r.c, r.out)
  /\ UNCHANGED <<posted_listings, messages, remote, tickFlip, cycles, nullIds>>
  /\ UNCHANGED <<call, proc>>

\* A step of a cycle in which the status scan throws.
ScanThrows == \E i \in Slots : FetchResolveScanThrows(i) \/ EditThrows(i)

FailingScanNext ==
  \/ Next
  \/ ScanThrows

FailingScanSpec == Init /\ [][FailingScanNext]_vars

\* The fetched ids that are not in the store.
NewIds(i) == FetchedIds(i) \ DOMAIN listings

\* C39: whatever throws inside the status scan, a step that takes the cycle
\* out of the scan takes it into detection, persistence and delivery: every
\* fetched listing that was not in the store is in it now and the first
\* batch of the new listings is being sent, or nothing is new and the poll
\* has completed. The cycle ends through the catch block of pollListings
\* only from the awaited fetch, with the store as it was (the fetch
\* itself failed).
C39_ScanErrorContained ==
  [][\A i \in Slots :
       (cyc[i].pc \in {"fetch", "edit", "editDelay"} /\ cyc'[i] # cyc[i]) =>
         \/ cyc'[i].pc \in {"edit", "editDelay"}
         \/ /\ cyc[i].pc = "fetch" /\ cyc'[i].pc = "off"
            /\ pollOutcome' = CatchOutcome /\ listings' = listings
         \/ /\ NewIds(i) \subseteq DOMAIN listings'
            /\ DOMAIN listings' = DOMAIN listings \cup NewIds(i)
            /\ UNCHANGED <<posted_listings, messages>>
            /\ IF NewIds(i) = {}
               THEN cyc'[i].pc = "off" /\ pollOutcome' = "completed"
               ELSE /\ cyc'[i].pc = "send"
                    /\ cyc'[i].groups = <<>>
                    /\ UNION {{cyc'[i].batches[b].listings[k].id :
                                 k \in DOMAIN cyc'[i].batches[b].listings} :
                                b \in DOMAIN cyc'[i].batches} = NewIds(i)]_vars

\* A cycle is sending a batch of new listings although the scan before it
\* did not get through: the fetch holds a delivered listing in a status
\* that was not written to the store.
C39_Witness ==
  \E i \in Slots :
    /\ cyc[i].pc = "send"
    /\ \E k \in DOMAIN cyc[i].fetched :
         LET l == cyc[i].fetched[k]
         IN /\ RecordsOf(l.id) # {}
            /\ l.id \in DOMAIN listings
            /\ listings[l.id].status # l.status

\* A text is an integer: an optional sign and then digits only, at least
\* one.
IsIntegerText(chars) ==
  LET digits == IF chars # <<>> /\ Head(chars) = "-" THEN Tail(chars) ELSE chars
  IN digits # <<>> /\ \A k \in DOMAIN digits : DigitValue(digits[k]) # {}

\* A customId is of the form buy:<listing id>:<integer position>.
IsButtonCustomId(customId) ==
  LET parts == SplitColon(customId)
  IN /\ Len(parts) = 3
     /\ parts[1] = <<"b", "u", "y">>
     /\ IsIntegerText(parts[3])

\* C40: parseButtonCustomId gives back the listing id and the position of
\* the customId createBatchButtons builds for a listing at a position in
\* 1..5, and returns null for every text that is not of the form
\* buy:<listing id>:<integer position>.
C40_CustomIdRoundTrip ==
  (call.op = "parseButtonCustomId" /\ call.done) =>
    /\ \A listingId \in IdTexts, position \in 1..LISTINGS_PER_BATCH :
         call.customId = customIdOf(listingId, position) =>
           call.result = {[action |-> "buy", listing_id |-> listingId,
                           batch_position |-> {position}]}
    /\ ~IsButtonCustomId(call.customId) => call.result = {}

====
